---- MODULE Spec2Model ----
(***************************************************************************)
(* Model of the transcribe_cli chunked transcription pipeline:             *)
(*   adapters/openai_client.py  OpenAIClient.transcribe_audio (retry loop) *)
(*   core/chunking.py           ChunkingManager (plan, checkpoint store)   *)
(*   core/pipeline.py           TranscriptionPipeline.run                  *)
(*   utils/fs.py                create_temp_dir / cleanup_temp_files       *)
(*                                                                         *)
(* Three specifications share the state and the operators:                 *)
(*   Spec        a sequence of pipeline runs (transcribe_file) over one    *)
(*               output directory;                                         *)
(*   SpecClient  a caller of OpenAIClient.transcribe_audio alone, with the *)
(*               service's replies recorded;                               *)
(*   SpecMgr     a caller driving ChunkingManager objects directly over a  *)
(*               work directory of its choice, as tests/ do.               *)
(***************************************************************************)
EXTENDS Integers, Sequences, FiniteSets, TLC

\* ---------------------------------------------------------------- bounds
MaxRetriesCap == 3    \* settings.max_retries ranges over 0..MaxRetriesCap
MaxDelay == 2         \* settings.retry_delay ranges over 1..MaxDelay (time units)
MaxDuration == 2      \* probed duration ranges over 0..MaxDuration (seconds)
MaxSize == 4          \* file size of the prepared audio ranges over 0..MaxSize (bytes)
MaxDirs == 2          \* directory names available under the output directory
MaxPipeRetries == 2   \* Spec: settings.max_retries ranges over 0..MaxPipeRetries
MaxTextLen == 6       \* SpecText: the texts have at most MaxTextLen characters
MaxStitchChunks == 3  \* SpecStitch: the chunk lists have 1..MaxStitchChunks chunks
MaxSegStart == 2      \* SpecSegments: a raw segment starts at 0..MaxSegStart
MaxSegs == 2          \* SpecSegments: a chunk list holds at most MaxSegs segments
MaxDiarRetries == 2   \* SpecDiar: settings.max_retries ranges over 0..MaxDiarRetries
MaxJobs == 2          \* SpecYoutube: the commands run one after another

\* ------------------------------------------------- job parameters (fixed)
ChunkDuration == 2    \* config.chunk_duration_seconds, in the model's seconds
MaxBytesPerChunk == 2 \* config.max_bytes_per_chunk, in the model's bytes
OPENAI_MAX_CHUNK_SIZE == 3   \* ChunkingManager.OPENAI_MAX_CHUNK_SIZE, same unit

\* A Python str is the sequence of its characters (one-character strings).
Texts == {<<"t", "1">>, <<"t", "2">>}  \* reply bodies of the service
NoneStr == <<"<None>">>                \* Python None in a str-typed field

\* The service's replies to one POST: a status code, or an httpx exception.
Statuses == {200, 429, 500, 400, 404}
Status(c) == [kind |-> "status", code |-> c]
TimeoutException == [kind |-> "TimeoutException", code |-> 0]
RequestError == [kind |-> "RequestError", code |-> 0]
Outcomes == {Status(c) : c \in Statuses} \cup {TimeoutException, RequestError}
NoOutcome == [kind |-> "none", code |-> 0]

\* ------------------------------------------------------------ file system
\* Directory 0 is where the caller's input files live; 1..MaxDirs are the
\* names of the work directories (handed out by mkdtemp, or chosen by the
\* caller of ChunkingManager).
Dirs == 1..MaxDirs
InputNames == {"a.wav", "copy.wav", "v.mp4", "notes.txt"}
InputPath(n) == [dir |-> 0, name |-> <<n, 0>>]
InputPaths == {InputPath(n) : n \in InputNames}
\* The inputs of the pipeline runs: an audio file, a video, an unsupported file.
JobInputs == {InputPath(n) : n \in {"a.wav", "v.mp4", "notes.txt"}}

\* pathlib: str(Path) and Path(str); a path's text is its list of parts.
PathToStr(p) == <<p.dir, p.name[1], p.name[2]>>
StrToPath(s) == [dir |-> s[1], name |-> <<s[2], s[3]>>]

\* fs.get_file_hash: a digest of the file's bytes ("copy.wav" holds the same
\* bytes as "a.wav").
get_file_hash(p) == IF p.name[1] \in {"a.wav", "copy.wav"} THEN "h1" ELSE "h2"
Hashes == {"h1", "h2"}

is_video_file(p) == p.name[1] = "v.mp4"
is_audio_file(p) == p.name[1] \in {"a.wav", "copy.wav"}

Min(a, b) == IF a <= b THEN a ELSE b
Max(a, b) == IF a >= b THEN a ELSE b
RECURSIVE Pow2(_)
Pow2(k) == IF k = 0 THEN 1 ELSE 2 * Pow2(k - 1)

\* ------------------------------------------------------------ AudioChunk
AudioChunk(i, st, du, fp) ==
    [index |-> i, start_time |-> st, duration |-> du, file_path |-> fp,
     transcribed |-> FALSE, transcript |-> NoneStr, metadata |-> <<>>]

ChunkPath(d, i) == [dir |-> d, name |-> <<"chunk", i>>]

\* ChunkingManager.create_chunks.  T: probed duration, size: file size,
\* cutFail: the indices whose cut (split_audio_chunk) raises.  The result is
\* [ok |-> FALSE] when the method raises (division by a zero effective
\* duration), else [ok |-> TRUE, chunks |-> the plan].
EffectiveChunkDuration(T, size, D, B) ==
    IF size > 0 THEN Min(D, (B * T) \div size) ELSE D

RECURSIVE CutLoop(_, _, _, _, _, _, _, _)
CutLoop(i, num, eff, T, wd, audio, cutFail, acc) ==
    IF i >= num \/ i * eff >= T THEN acc
    ELSE IF i \in cutFail
         THEN IF i = 0
              THEN << AudioChunk(0, 0, T, audio) >>
              ELSE CutLoop(i + 1, num, eff, T, wd, audio, cutFail, acc)
         ELSE CutLoop(i + 1, num, eff, T, wd, audio, cutFail,
                      Append(acc, AudioChunk(i, i * eff, Min(eff, T - i * eff),
                                             ChunkPath(wd, i))))

create_chunks(T, size, D, B, wd, audio, cutFail) ==
    IF T <= 0
    THEN [ok |-> TRUE, chunks |-> << AudioChunk(0, 0, 0, audio) >>]
    ELSE LET eff == EffectiveChunkDuration(T, size, D, B) IN
         IF eff = 0
         THEN [ok |-> FALSE, chunks |-> <<>>]
         ELSE [ok |-> TRUE,
               chunks |-> CutLoop(0, Max(1, (T \div eff) + 1), eff, T, wd,
                                  audio, cutFail, <<>>)]

\* ------------------------------------------------------- checkpoint store
\* json.dump / json.load of an Optional[dict]: None is written as null, a
\* dictionary as an object.
JsonDump(metadata) ==
    IF metadata = <<>> THEN [null |-> TRUE] ELSE [object |-> metadata[1]]
JsonLoad(j) ==
    IF "null" \in DOMAIN j THEN <<>> ELSE <<j.object>>

\* The JSON document save_checkpoint writes.
CheckpointData(input_path, chunks) ==
    [input_path |-> PathToStr(input_path),
     chunks |-> [k \in 1..Len(chunks) |->
                   [index |-> chunks[k].index,
                    start_time |-> chunks[k].start_time,
                    duration |-> chunks[k].duration,
                    file_path |-> PathToStr(chunks[k].file_path),
                    transcribed |-> chunks[k].transcribed,
                    transcript |-> chunks[k].transcript,
                    metadata |-> JsonDump(chunks[k].metadata)]]]

\* files[d][h] is <<>> when checkpoint_<h>.json is absent from directory d,
\* and <<doc>> when it holds the document doc.
NoFiles == [h \in Hashes |-> <<>>]

save_checkpoint(fl, wd, input_path, chunks) ==
    [fl EXCEPT ![wd][get_file_hash(input_path)] =
                   << CheckpointData(input_path, chunks) >>]

\* Mutant: the metadata is not restored.
RestoreChunks_nometadata(doc) ==
    [k \in 1..Len(doc.chunks) |->
        [index |-> doc.chunks[k].index,
         start_time |-> doc.chunks[k].start_time,
         duration |-> doc.chunks[k].duration,
         file_path |-> StrToPath(doc.chunks[k].file_path),
         transcribed |-> doc.chunks[k].transcribed,
         transcript |-> doc.chunks[k].transcript,
         metadata |-> <<>>]]

\* ChunkingManager.load_checkpoint: [loaded, chunks] from the file system.
RestoreChunks(doc) ==
    [k \in 1..Len(doc.chunks) |->
        [index |-> doc.chunks[k].index,
         start_time |-> doc.chunks[k].start_time,
         duration |-> doc.chunks[k].duration,
         file_path |-> StrToPath(doc.chunks[k].file_path),
         transcribed |-> doc.chunks[k].transcribed,
         transcript |-> doc.chunks[k].transcript,
         metadata |-> JsonLoad(doc.chunks[k].metadata)]]

\* Mutant: the stored input_path is not compared.
load_checkpoint_unverified(ds, fl, wd, input_path, chunks) ==
    LET f == IF wd \in ds THEN fl[wd][get_file_hash(input_path)] ELSE <<>> IN
    IF f = <<>>
    THEN [loaded |-> FALSE, chunks |-> chunks]
    ELSE [loaded |-> TRUE, chunks |-> RestoreChunks(f[1])]

load_checkpoint(ds, fl, wd, input_path, chunks) ==
    LET f == IF wd \in ds THEN fl[wd][get_file_hash(input_path)] ELSE <<>> IN
    IF f = <<>>
    THEN [loaded |-> FALSE, chunks |-> chunks]
    ELSE IF f[1].input_path # PathToStr(input_path)
         THEN [loaded |-> FALSE, chunks |-> chunks]
         ELSE [loaded |-> TRUE, chunks |-> RestoreChunks(f[1])]

\* ChunkingManager.get_pending_chunks, as the list of positions in chunks.
RECURSIVE PendingFrom(_, _)
PendingFrom(chunks, k) ==
    IF k > Len(chunks) THEN <<>>
    ELSE IF ~chunks[k].transcribed
         THEN <<k>> \o PendingFrom(chunks, k + 1)
         ELSE PendingFrom(chunks, k + 1)
\* Mutant: the pending chunks are listed last first.
get_pending_chunks_reversed(chunks) ==
    LET P == PendingFrom(chunks, 1) IN
    [k \in 1..Len(P) |-> P[Len(P) + 1 - k]]

get_pending_chunks(chunks) == PendingFrom(chunks, 1)

\* The in-memory half of mark_chunk_completed: the first chunk whose index
\* matches is updated (the loop breaks after it).
FirstWithIndex(chunks, index) ==
    LET S == {k \in 1..Len(chunks) : chunks[k].index = index} IN
    IF S = {} THEN 0 ELSE CHOOSE k \in S : \A j \in S : k <= j

\* Mutant: the chunk list is rebuilt, and only the marked chunk is complete.
MarkInMemory_rebuilt(chunks, index, transcript, metadata) ==
    LET k == FirstWithIndex(chunks, index) IN
    [j \in 1..Len(chunks) |->
        IF j = k
        THEN [chunks[j] EXCEPT !.transcribed = TRUE,
                               !.transcript = transcript,
                               !.metadata = <<metadata>>]
        ELSE [chunks[j] EXCEPT !.transcribed = FALSE]]

MarkInMemory(chunks, index, transcript, metadata) ==
    LET k == FirstWithIndex(chunks, index) IN
    IF k = 0 THEN chunks
    ELSE [chunks EXCEPT ![k].transcribed = TRUE,
                        ![k].transcript = transcript,
                        ![k].metadata = <<metadata>>]

\* ------------------------------------------------------------ str methods
Whitespace == {" ", "\t", "\n"}

RECURSIVE str_lstrip(_)
str_lstrip(s) ==
    IF s # <<>> /\ Head(s) \in Whitespace THEN str_lstrip(Tail(s)) ELSE s

RECURSIVE str_rstrip(_)
str_rstrip(s) ==
    IF s # <<>> /\ s[Len(s)] \in Whitespace
    THEN str_rstrip(SubSeq(s, 1, Len(s) - 1)) ELSE s

str_strip(s) == str_rstrip(str_lstrip(s))

\* The longest prefix of s holding no character of the set stop.
RECURSIVE TakeUntil(_, _)
TakeUntil(s, stop) ==
    IF s = <<>> \/ Head(s) \in stop THEN <<>>
    ELSE <<Head(s)>> \o TakeUntil(Tail(s), stop)

\* s.split(): the maximal runs of non-whitespace characters.
RECURSIVE str_split(_)
str_split(s) ==
    LET t == str_lstrip(s) IN
    IF t = <<>> THEN <<>>
    ELSE LET w == TakeUntil(t, Whitespace) IN
         <<w>> \o str_split(SubSeq(t, Len(w) + 1, Len(t)))

\* sep.join(parts)
RECURSIVE str_join(_, _)
str_join(sep, parts) ==
    IF parts = <<>> THEN <<>>
    ELSE IF Len(parts) = 1 THEN parts[1]
    ELSE parts[1] \o sep \o str_join(sep, Tail(parts))

\* s.split(ch): the pieces of s between the occurrences of ch.
RECURSIVE str_split_on(_, _)
str_split_on(s, ch) ==
    LET piece == TakeUntil(s, {ch}) IN
    IF Len(piece) = Len(s) THEN <<piece>>
    ELSE <<piece>> \o str_split_on(SubSeq(s, Len(piece) + 2, Len(s)), ch)

\* The longest prefix of s made of characters of the set cs.
RECURSIVE TakeWhile(_, _)
TakeWhile(s, cs) ==
    IF s = <<>> \/ Head(s) \notin cs THEN <<>>
    ELSE <<Head(s)>> \o TakeWhile(Tail(s), cs)

\* --------------------------------------- postprocess.normalize_whitespace
\* re.sub(r'[ \t]+', ' ', text)
RECURSIVE CollapseBlanks(_)
CollapseBlanks(s) ==
    IF s = <<>> THEN <<>>
    ELSE IF Head(s) \in {" ", "\t"}
         THEN LET r == TakeWhile(s, {" ", "\t"}) IN
              <<" ">> \o CollapseBlanks(SubSeq(s, Len(r) + 1, Len(s)))
         ELSE <<Head(s)>> \o CollapseBlanks(Tail(s))

\* re.sub(r'\n{3,}', '\n\n', text)
RECURSIVE CollapseNewlines(_)
CollapseNewlines(s) ==
    IF s = <<>> THEN <<>>
    ELSE IF Head(s) = "\n"
         THEN LET r == TakeWhile(s, {"\n"}) IN
              (IF Len(r) >= 3 THEN <<"\n", "\n">> ELSE r)
              \o CollapseNewlines(SubSeq(s, Len(r) + 1, Len(s)))
         ELSE <<Head(s)>> \o CollapseNewlines(Tail(s))

\* [line.strip() for line in lines]
StripEach(lines) == [k \in 1..Len(lines) |-> str_strip(lines[k])]

normalize_whitespace(text) ==
    LET t1 == CollapseBlanks(text)
        t2 == CollapseNewlines(t1)
        lines == StripEach(str_split_on(t2, "\n"))
        t3 == str_join(<<"\n">>, lines)
    IN str_strip(t3)

\* ChunkingManager.get_full_transcript.
RECURSIVE SortedByIndex(_)
SortedByIndex(chunks) ==
    IF chunks = <<>> THEN <<>>
    ELSE LET m == CHOOSE k \in 1..Len(chunks) :
                     \A j \in 1..Len(chunks) :
                        \/ chunks[k].index < chunks[j].index
                        \/ (chunks[k].index = chunks[j].index /\ k <= j)
             rest == [j \in 1..(Len(chunks) - 1) |->
                         IF j < m THEN chunks[j] ELSE chunks[j + 1]]
         IN <<chunks[m]>> \o SortedByIndex(rest)

\* The transcripts that are neither None nor empty.
RECURSIVE Transcripts(_)
Transcripts(chunks) ==
    IF chunks = <<>> THEN <<>>
    ELSE (IF Head(chunks).transcript \notin {NoneStr, <<>>}
          THEN <<Head(chunks).transcript>> ELSE <<>>)
         \o Transcripts(Tail(chunks))

\* Mutant: the chunks are taken in list order.
get_full_transcript_unsorted(chunks) ==
    LET full_text == str_join(<<" ">>, Transcripts(chunks)) IN
    str_join(<<" ">>, str_split(full_text))

get_full_transcript(chunks) ==
    LET full_text == str_join(<<" ">>, Transcripts(SortedByIndex(chunks))) IN
    str_join(<<" ">>, str_split(full_text))


\* ----------------------------------------------------------------- state
VARIABLES
    max_retries,   \* OpenAIClient.max_retries (settings.max_retries)
    retry_delay,   \* OpenAIClient.retry_delay (settings.retry_delay)
    dirs,          \* the work directories that exist
    files,         \* files[d][h]: checkpoint_<h>.json in directory d
    pc,            \* where TranscriptionPipeline.run stands
    config,        \* TranscribeConfig of the current run
    temp_dir,      \* pipeline.temp_dir (0: None)
    audio_path,    \* the prepared audio
    mgr,           \* ChunkingManager: input_path, work_dir, chunks
    pending,       \* _transcribe_chunks: pending_chunks (positions in chunks)
    pos,           \* _transcribe_chunks: position of the loop in pending
    call,          \* transcribe_audio: where it stands, attempt, event log
    replies,       \* SpecClient, history: the replies to the current call
    run,           \* history of the current run
    last,          \* history: summary of the last finished run
    ops            \* SpecMgr: the last ChunkingManager call and its result

vars == <<max_retries, retry_delay, dirs, files, pc, config, temp_dir,
          audio_path, mgr, pending, pos, call, replies, run, last, ops>>

DefaultRetryDelay == 1   \* Settings.retry_delay default

NoPath == [dir |-> 0, name |-> <<"", 0>>]
NoConfig == [input_path |-> NoPath, resume |-> FALSE]
NoMgr == [input_path |-> NoPath, work_dir |-> 0, chunks |-> <<>>]
NoCall == [cpc |-> "idle", chunk |-> 0, attempt |-> 0, log |-> <<>>,
           text |-> NoneStr]
NoRun == [planned |-> FALSE, loaded |-> FALSE, calls |-> <<>>,
          returned |-> <<>>]
NoLast == [input_path |-> NoPath, resume |-> FALSE, outcome |-> "none",
           done |-> {}, calls |-> <<>>, text |-> <<>>]
NoOps == [op |-> "none", result |-> FALSE]

InitState ==
    /\ dirs = {}
    /\ files = [d \in Dirs |-> NoFiles]
    /\ pc = "idle"
    /\ config = NoConfig
    /\ temp_dir = 0
    /\ audio_path = NoPath
    /\ mgr = NoMgr
    /\ pending = <<>>
    /\ pos = 1
    /\ call = NoCall
    /\ replies = <<>>
    /\ run = NoRun
    /\ last = NoLast
    /\ ops = NoOps

Init ==
    /\ max_retries \in 0..MaxPipeRetries
    /\ retry_delay = DefaultRetryDelay
    /\ InitState

\* -------------------------------------------- OpenAIClient.transcribe_audio
PostEvent(k) == [t |-> "post", v |-> k]
WaitEvent(w) == [t |-> "wait", v |-> w]

FileExists(ds, p) == p.dir = 0 \/ p.dir \in ds

\* Entry of transcribe_audio for one chunk, up to the retry loop.
CallEnter(ds, index, p) ==
    IF FileExists(ds, p)
    THEN [NoCall EXCEPT !.cpc = "loop", !.chunk = index]
    ELSE [NoCall EXCEPT !.cpc = "raised", !.chunk = index]

\* Mutant: the loop bound is off by one.
LoopContinues_inclusive(c, maxr) == c.attempt <= maxr

\* The head of "for attempt in range(self.max_retries)".
LoopContinues(c, maxr) == c.attempt < maxr

\* await client.post(...) is issued.
CallPost(c) ==
    [c EXCEPT !.cpc = "inflight", !.log = Append(@, PostEvent(c.attempt))]

\* The loop is exhausted: raise "Failed after N attempts".
CallExhausted(c) == [c EXCEPT !.cpc = "raised"]

\* Mutant: the delay does not grow with the attempt.
wait_time_constant(delay, attempt) == delay

wait_time(delay, attempt) == delay * Pow2(attempt)

Sleep(c, delay) ==
    [c EXCEPT !.cpc = "sleep",
              !.log = Append(@, WaitEvent(wait_time(delay, c.attempt)))]

\* Mutant: every error status is taken for a server error.
IsServerError_from400(code) == code >= 400

\* response.status_code >= 500
IsServerError(code) == code >= 500

\* The reply o to the POST in flight (text: the body of a 200 reply).
CallReply(c, o, text, maxr, delay) ==
    IF o.kind = "status"
    THEN IF o.code = 200
         THEN [c EXCEPT !.cpc = "returned", !.text = text]
         ELSE IF o.code = 429
              THEN Sleep(c, delay)
              ELSE IF IsServerError(o.code) /\ c.attempt < maxr - 1
                   THEN Sleep(c, delay)
                   ELSE [c EXCEPT !.cpc = "raised"]
    ELSE IF c.attempt < maxr - 1
         THEN Sleep(c, delay)
         ELSE [c EXCEPT !.cpc = "raised"]

\* asyncio.sleep returns and the loop continues with the next attempt.
CallWake(c) == [c EXCEPT !.cpc = "loop", !.attempt = @ + 1]

\* ------------------------------------------------ TranscriptionPipeline.run
\* fs.create_temp_dir: mkdtemp makes a directory whose name is not in use.
create_temp_dir(ds) == CHOOSE d \in Dirs \ ds : TRUE

\* fs.cleanup_temp_files: shutil.rmtree removes the directory with all it
\* holds; when rmtree raises (rmOk false) the failure is logged and the
\* directory stays.  The runs modelled meet no such I/O fault.
RmtreeOutcomes == {TRUE}
cleanup_temp_dirs(ds, d, rmOk) == IF d \in ds /\ rmOk THEN ds \ {d} ELSE ds
cleanup_temp_files(ds, fl, d, rmOk) ==
    IF d \in ds /\ rmOk THEN [fl EXCEPT ![d] = NoFiles] ELSE fl

DoneSet(chunks) ==
    {chunks[k].index : k \in {j \in 1..Len(chunks) : chunks[j].transcribed}}

Summary(cfg, outcome, text, chunks, r) ==
    [input_path |-> cfg.input_path, resume |-> cfg.resume,
     outcome |-> outcome, done |-> DoneSet(chunks), calls |-> r.calls,
     text |-> text]

\* The end of run(): the "finally" block runs cleanup_temp_files when
\* self.temp_dir is set and exists, and the call returns or raises.
\* ds, fl: the file system as the body of run() left it; td: self.temp_dir.
EndRun(cfg, td, outcome, text, ds, fl, chunks, r) ==
    /\ \E rmOk \in RmtreeOutcomes :
          /\ dirs' = cleanup_temp_dirs(ds, td, rmOk)
          /\ files' = cleanup_temp_files(ds, fl, td, rmOk)
    /\ last' = Summary(cfg, outcome, text, chunks, r)
    /\ pc' = "idle"
    /\ temp_dir' = 0
    /\ mgr' = NoMgr
    /\ pending' = <<>>
    /\ pos' = 1
    /\ run' = NoRun
    /\ config' = NoConfig
    /\ audio_path' = NoPath
    /\ call' = NoCall

\* transcribe_file(config): the pipeline is constructed and _prepare_audio
\* runs.  ok: whether the transcoder succeeds.
PrepareAudio(p, resume, ok) ==
    /\ pc = "idle"
    /\ Dirs \ dirs # {}
    /\ UNCHANGED <<max_retries, retry_delay, replies, ops>>
    /\ LET td == create_temp_dir(dirs)
           ds == dirs \cup {td}
           cfg == [input_path |-> p, resume |-> resume] IN
       IF (is_video_file(p) /\ ok) \/ is_audio_file(p)
       THEN /\ config' = cfg
            /\ temp_dir' = td
            /\ audio_path' =
                  IF is_video_file(p)
                  THEN [dir |-> td, name |-> <<"extracted_audio.wav", 0>>]
                  ELSE IF ok
                       THEN [dir |-> td, name |-> <<"converted_audio.wav", 0>>]
                       ELSE p
            /\ pc' = "prepared"
            /\ dirs' = ds
            /\ UNCHANGED <<files, mgr, pending, pos, call, run, last>>
       ELSE \* FFmpegError on a video, or ValueError: unsupported file type
            EndRun(cfg, td, "failed", <<>>, ds, files, <<>>, NoRun)

\* _setup_chunking.  T, size: what the probe and stat report for the
\* prepared audio; cutFail: the chunk cuts that fail.
SetupChunking(T, size, cutFail) ==
    /\ pc = "prepared"
    /\ UNCHANGED <<max_retries, retry_delay, replies, ops>>
    /\ LET m0 == [input_path |-> config.input_path, work_dir |-> temp_dir,
                  chunks |-> <<>>]
           ld == load_checkpoint(dirs, files, m0.work_dir, m0.input_path,
                                 m0.chunks)
           cr == create_chunks(T, size, ChunkDuration,
                               Min(MaxBytesPerChunk, OPENAI_MAX_CHUNK_SIZE),
                               m0.work_dir, audio_path, cutFail)
       IN
       IF config.resume /\ ld.loaded
       THEN /\ mgr' = [m0 EXCEPT !.chunks = ld.chunks]
            /\ run' = [run EXCEPT !.loaded = TRUE]
            /\ pc' = "chunked"
            /\ UNCHANGED <<dirs, files, config, temp_dir, audio_path,
                           pending, pos, call, last>>
       ELSE IF cr.ok
       THEN /\ mgr' = [m0 EXCEPT !.chunks = cr.chunks]
            /\ files' = save_checkpoint(files, m0.work_dir, m0.input_path,
                                        cr.chunks)
            /\ run' = [run EXCEPT !.planned = TRUE]
            /\ pc' = "chunked"
            /\ UNCHANGED <<dirs, config, temp_dir, audio_path, pending, pos,
                           call, last>>
       ELSE \* create_chunks raised ZeroDivisionError
            EndRun(config, temp_dir, "failed", <<>>, dirs, files, <<>>,
                   [run EXCEPT !.planned = TRUE])

\* The head of _transcribe_chunks: the pending chunks are listed once.
BeginTranscribe ==
    /\ pc = "chunked"
    /\ pending' = get_pending_chunks(mgr.chunks)
    /\ pos' = 1
    /\ pc' = "transcribing"
    /\ UNCHANGED <<max_retries, retry_delay, dirs, files, config, temp_dir,
                   audio_path, mgr, call, replies, run, last, ops>>

\* The loop of _transcribe_chunks takes the next pending chunk and calls
\* client.transcribe_audio, which checks that the chunk file exists.
TranscribeAudio ==
    /\ pc = "transcribing"
    /\ call.cpc \in {"idle", "marked"}
    /\ pos <= Len(pending)
    /\ LET chunk == mgr.chunks[pending[pos]]
           c == CallEnter(dirs, chunk.index, chunk.file_path)
           r == [run EXCEPT !.calls = Append(@, chunk.index)] IN
       IF c.cpc = "raised"
       THEN EndRun(config, temp_dir, "chunk_failed", <<>>, dirs, files,
                   mgr.chunks, r)
       ELSE /\ call' = c
            /\ run' = r
            /\ UNCHANGED <<dirs, files, pc, config, temp_dir, audio_path,
                           mgr, pending, pos, last>>
    /\ UNCHANGED <<max_retries, retry_delay, replies, ops>>

\* One attempt of the retry loop issues its POST.
Post ==
    /\ pc = "transcribing"
    /\ call.cpc = "loop"
    /\ LoopContinues(call, max_retries)
    /\ call' = CallPost(call)
    /\ UNCHANGED <<max_retries, retry_delay, dirs, files, pc, config,
                   temp_dir, audio_path, mgr, pending, pos, replies, run,
                   last, ops>>

\* The retry loop ends without a result: "Failed after N attempts".
Exhausted ==
    /\ pc = "transcribing"
    /\ call.cpc = "loop"
    /\ ~LoopContinues(call, max_retries)
    /\ CallExhausted(call).cpc = "raised"
    /\ EndRun(config, temp_dir, "chunk_failed", <<>>, dirs, files,
              mgr.chunks, run)
    /\ UNCHANGED <<max_retries, retry_delay, replies, ops>>

\* The service replies to the POST in flight.
Reply(o, text) ==
    /\ pc = "transcribing"
    /\ call.cpc = "inflight"
    /\ LET c == CallReply(call, o, text, max_retries, retry_delay) IN
       IF c.cpc = "raised"
       THEN EndRun(config, temp_dir, "chunk_failed", <<>>, dirs, files,
                   mgr.chunks, run)
       ELSE /\ call' = c
            /\ run' = IF c.cpc = "returned"
                      THEN [run EXCEPT !.returned =
                               Append(@, <<call.chunk, text>>)]
                      ELSE run
            /\ UNCHANGED <<dirs, files, pc, config, temp_dir, audio_path,
                           mgr, pending, pos, last>>
    /\ UNCHANGED <<max_retries, retry_delay, replies, ops>>

\* The backoff sleep is over.
Wake ==
    /\ pc = "transcribing"
    /\ call.cpc = "sleep"
    /\ call' = CallWake(call)
    /\ UNCHANGED <<max_retries, retry_delay, dirs, files, pc, config,
                   temp_dir, audio_path, mgr, pending, pos, replies, run,
                   last, ops>>

\* Mutant: the checkpoint is not saved after the update in memory.
mark_chunk_completed_unsaved(m, fl, index, transcript, metadata) ==
    LET chunks == MarkInMemory(m.chunks, index, transcript, metadata) IN
    [mgr |-> [m EXCEPT !.chunks = chunks], files |-> fl]

\* ChunkingManager.mark_chunk_completed: the chunk is updated in memory and
\* the checkpoint is saved.
mark_chunk_completed(m, fl, index, transcript, metadata) ==
    LET chunks == MarkInMemory(m.chunks, index, transcript, metadata) IN
    [mgr |-> [m EXCEPT !.chunks = chunks],
     files |-> save_checkpoint(fl, m.work_dir, m.input_path, chunks)]

\* transcribe_audio returned its result for the chunk.
MarkCompleted ==
    /\ pc = "transcribing"
    /\ call.cpc = "returned"
    /\ LET mk == mark_chunk_completed(mgr, files, call.chunk, call.text,
                                      [text |-> call.text]) IN
       /\ mgr' = mk.mgr
       /\ files' = mk.files
    /\ call' = [call EXCEPT !.cpc = "marked"]
    /\ pos' = pos + 1
    /\ UNCHANGED <<max_retries, retry_delay, dirs, pc, config, temp_dir,
                   audio_path, pending, replies, run, last, ops>>

\* ChunkingManager.cleanup: the checkpoint file is removed.
cleanup(fl, wd, input_path) ==
    [fl EXCEPT ![wd][get_file_hash(input_path)] = <<>>]

\* Every pending chunk is done: the transcript is stitched, the checkpoint
\* is removed unless resume is on, and run() returns through "finally".
\* (clean_transcript with no glossary only normalises whitespace, which
\* leaves the list of words as it is.)
RunComplete ==
    /\ pc = "transcribing"
    /\ call.cpc \in {"idle", "marked"}
    /\ pos > Len(pending)
    /\ EndRun(config, temp_dir, "ok", get_full_transcript(mgr.chunks), dirs,
              IF ~config.resume
              THEN cleanup(files, mgr.work_dir, mgr.input_path) ELSE files,
              mgr.chunks, run)
    /\ UNCHANGED <<max_retries, retry_delay, replies, ops>>

\* The caller cancels the task: CancelledError is raised at the await the
\* task is suspended in (the POST or the backoff sleep); no handler of the
\* pipeline catches it, and "finally" runs.
Cancel ==
    /\ pc = "transcribing"
    /\ call.cpc \in {"inflight", "sleep"}
    /\ EndRun(config, temp_dir, "cancelled", <<>>, dirs, files, mgr.chunks,
              run)
    /\ UNCHANGED <<max_retries, retry_delay, replies, ops>>

Next ==
    \/ \E p \in JobInputs, resume \in BOOLEAN, ok \in BOOLEAN :
          PrepareAudio(p, resume, ok)
    \/ \E T \in 0..MaxDuration, size \in 0..MaxSize,
          cutFail \in SUBSET (0..(MaxDuration - 1)) :
          SetupChunking(T, size, cutFail)
    \/ BeginTranscribe
    \/ TranscribeAudio
    \/ Post
    \/ Exhausted
    \/ \E o \in Outcomes, text \in Texts : Reply(o, text)
    \/ Wake
    \/ MarkCompleted
    \/ RunComplete
    \/ Cancel

Spec == Init /\ [][Next]_vars

\* ------------------------------------ SpecClient: transcribe_audio alone
DefaultMaxRetries == 3   \* Settings.max_retries default

InitClient ==
    /\ max_retries \in 0..MaxRetriesCap
    /\ retry_delay \in 1..MaxDelay
    /\ InitState

ClientUnchanged ==
    UNCHANGED <<max_retries, retry_delay, dirs, files, pc, config, temp_dir,
                audio_path, mgr, pending, pos, run, last, ops>>

\* A caller awaits transcribe_audio(audio_path); exists: the file is there.
ClientCall(exists) ==
    /\ call.cpc \in {"idle", "returned", "raised"}
    /\ call' = CallEnter(dirs, 0, IF exists THEN InputPath("a.wav")
                                  ELSE ChunkPath(1, 0))
    /\ replies' = <<>>
    /\ ClientUnchanged

ClientPost ==
    /\ pc = "idle"
    /\ call.cpc = "loop"
    /\ LoopContinues(call, max_retries)
    /\ call' = CallPost(call)
    /\ UNCHANGED replies
    /\ ClientUnchanged

ClientExhausted ==
    /\ pc = "idle"
    /\ call.cpc = "loop"
    /\ ~LoopContinues(call, max_retries)
    /\ call' = CallExhausted(call)
    /\ UNCHANGED replies
    /\ ClientUnchanged

ClientReply(o, text) ==
    /\ pc = "idle"
    /\ call.cpc = "inflight"
    /\ call' = CallReply(call, o, text, max_retries, retry_delay)
    /\ replies' = Append(replies, o)
    /\ ClientUnchanged

ClientWake ==
    /\ pc = "idle"
    /\ call.cpc = "sleep"
    /\ call' = CallWake(call)
    /\ UNCHANGED replies
    /\ ClientUnchanged

NextClient ==
    \/ \E exists \in BOOLEAN : ClientCall(exists)
    \/ ClientPost
    \/ ClientExhausted
    \/ \E o \in Outcomes, text \in Texts : ClientReply(o, text)
    \/ ClientWake

SpecClient == InitClient /\ [][NextClient]_vars

\* --------------------------------- SpecMgr: ChunkingManager driven directly
InitMgr ==
    /\ max_retries = DefaultMaxRetries
    /\ retry_delay = DefaultRetryDelay
    /\ InitState

MgrUnchanged ==
    UNCHANGED <<max_retries, retry_delay, pc, config, temp_dir, audio_path,
                pending, pos, call, replies, run, last>>

\* ChunkingManager(input_path, work_dir): ensure_dir(work_dir), no chunks.
MgrNew(p, d) ==
    /\ dirs' = dirs \cup {d}
    /\ mgr' = [input_path |-> p, work_dir |-> d, chunks |-> <<>>]
    /\ ops' = [op |-> "new", result |-> TRUE]
    /\ UNCHANGED files
    /\ MgrUnchanged

MgrCreateChunks(T, size, cutFail) ==
    /\ mgr.work_dir # 0
    /\ LET cr == create_chunks(T, size, ChunkDuration,
                               Min(MaxBytesPerChunk, OPENAI_MAX_CHUNK_SIZE),
                               mgr.work_dir, mgr.input_path, cutFail) IN
       /\ mgr' = IF cr.ok THEN [mgr EXCEPT !.chunks = cr.chunks] ELSE mgr
       /\ ops' = [op |-> "create_chunks", result |-> cr.ok]
    /\ UNCHANGED <<dirs, files>>
    /\ MgrUnchanged

MgrSave ==
    /\ mgr.work_dir # 0
    /\ files' = save_checkpoint(files, mgr.work_dir, mgr.input_path,
                                mgr.chunks)
    /\ ops' = [op |-> "save_checkpoint", result |-> TRUE]
    /\ UNCHANGED <<dirs, mgr>>
    /\ MgrUnchanged

MgrLoad ==
    /\ mgr.work_dir # 0
    /\ LET ld == load_checkpoint(dirs, files, mgr.work_dir, mgr.input_path,
                                 mgr.chunks) IN
       /\ mgr' = [mgr EXCEPT !.chunks = ld.chunks]
       /\ ops' = [op |-> "load_checkpoint", result |-> ld.loaded]
    /\ UNCHANGED <<dirs, files>>
    /\ MgrUnchanged

MgrMark(index, text) ==
    /\ mgr.work_dir # 0
    /\ LET mk == mark_chunk_completed(mgr, files, index, text,
                                      [text |-> text]) IN
       /\ mgr' = mk.mgr
       /\ files' = mk.files
    /\ ops' = [op |-> "mark_chunk_completed", result |-> TRUE]
    /\ UNCHANGED dirs
    /\ MgrUnchanged

MgrCleanup ==
    /\ mgr.work_dir # 0
    /\ files' = cleanup(files, mgr.work_dir, mgr.input_path)
    /\ ops' = [op |-> "cleanup", result |-> TRUE]
    /\ UNCHANGED <<dirs, mgr>>
    /\ MgrUnchanged

\* The caller works in one directory, on a file and on a copy of it, and
\* plans the longest audio at the smallest and at the largest size.
MgrDir == CHOOSE d \in Dirs : TRUE
MgrInputs == {InputPath(n) : n \in {"a.wav", "copy.wav"}}

NextMgr ==
    \/ \E p \in MgrInputs : MgrNew(p, MgrDir)
    \/ \E size \in {0, MaxSize} : MgrCreateChunks(MaxDuration, size, {})
    \/ MgrSave
    \/ MgrLoad
    \/ \E index \in 0..(MaxDuration - 1), text \in Texts : MgrMark(index, text)
    \/ MgrCleanup

SpecMgr == InitMgr /\ [][NextMgr]_vars


\* -------------------- SpecPlan: create_chunks applied to one prepared audio
\* The variables the pure-function specifications leave alone.
FnUnchanged ==
    UNCHANGED <<max_retries, retry_delay, dirs, files, pc, config, temp_dir,
                audio_path, pending, pos, call, replies, run, last>>

\* A ChunkingManager(input_path, work_dir, chunk_duration, max_chunk_size)
\* and what the probe, stat and the cuts will report for its audio.
PlanInputs ==
    [op : {"ChunkingManager"}, result : {FALSE},
     chunk_duration : 1..ChunkDuration,
     max_chunk_size : 1..(OPENAI_MAX_CHUNK_SIZE + 1),
     T : 0..MaxDuration, size : 0..MaxSize,
     cutFail : SUBSET (0..(MaxDuration - 1))]

InitPlan ==
    /\ max_retries = DefaultMaxRetries
    /\ retry_delay = DefaultRetryDelay
    /\ dirs = {MgrDir}
    /\ files = [d \in Dirs |-> NoFiles]
    /\ pc = "idle"
    /\ config = NoConfig
    /\ temp_dir = 0
    /\ audio_path = NoPath
    /\ mgr = [input_path |-> InputPath("a.wav"), work_dir |-> MgrDir,
              chunks |-> <<>>]
    /\ pending = <<>>
    /\ pos = 1
    /\ call = NoCall
    /\ replies = <<>>
    /\ run = NoRun
    /\ last = NoLast
    /\ ops \in PlanInputs

PlanCreateChunks ==
    /\ ops.op = "ChunkingManager"
    /\ LET cr == create_chunks(ops.T, ops.size, ops.chunk_duration,
                               Min(ops.max_chunk_size, OPENAI_MAX_CHUNK_SIZE),
                               mgr.work_dir, mgr.input_path, ops.cutFail) IN
       /\ mgr' = IF cr.ok THEN [mgr EXCEPT !.chunks = cr.chunks] ELSE mgr
       /\ ops' = [ops EXCEPT !.op = "create_chunks", !.result = cr.ok]
    /\ FnUnchanged

NextPlan == PlanCreateChunks

SpecPlan == InitPlan /\ [][NextPlan]_vars


\* -------------------------- SpecText: normalize_whitespace applied to a text
TextChars == {" ", "\t", "\n", "a"}
TextInputs == UNION {[1..n -> TextChars] : n \in 0..MaxTextLen}

InitText ==
    /\ max_retries = DefaultMaxRetries
    /\ retry_delay = DefaultRetryDelay
    /\ dirs = {}
    /\ files = [d \in Dirs |-> NoFiles]
    /\ pc = "idle"
    /\ config = NoConfig
    /\ temp_dir = 0
    /\ audio_path = NoPath
    /\ mgr = NoMgr
    /\ pending = <<>>
    /\ pos = 1
    /\ call = NoCall
    /\ replies = <<>>
    /\ run = NoRun
    /\ last = NoLast
    /\ \E x \in TextInputs : ops = [op |-> "text", arg |-> x, result |-> x]

TextNormalize ==
    /\ ops.op = "text"
    /\ ops' = [op |-> "normalize_whitespace", arg |-> ops.arg,
               result |-> normalize_whitespace(ops.arg)]
    /\ UNCHANGED mgr
    /\ FnUnchanged

NextText == TextNormalize

SpecText == InitText /\ [][NextText]_vars


\* --------------- SpecStitch: get_full_transcript applied to a chunk list
\* What a chunk's transcript can be: None, "", " ", "a", " a ", "b\t\nc".
StitchTexts ==
    {NoneStr, <<>>, <<" ">>, <<"a">>, <<" ", "a", " ">>,
     <<"b", "\t", "\n", "c">>}

ListOrders(n) ==
    {f \in [1..n -> 0..(n - 1)] : \A i, j \in 1..n : f[i] = f[j] => i = j}

\* A chunk of manager.chunks as a caller (or a checkpoint file) can set it;
\* InitStitch lists the chunks of indices 0..n-1 in any order.
StitchChunk(i, t) ==
    [AudioChunk(i, i * ChunkDuration, ChunkDuration, ChunkPath(MgrDir, i))
        EXCEPT !.transcribed = (t # NoneStr), !.transcript = t]

InitStitch ==
    /\ max_retries = DefaultMaxRetries
    /\ retry_delay = DefaultRetryDelay
    /\ dirs = {MgrDir}
    /\ files = [d \in Dirs |-> NoFiles]
    /\ pc = "idle"
    /\ config = NoConfig
    /\ temp_dir = 0
    /\ audio_path = NoPath
    /\ \E n \in 1..MaxStitchChunks :
          \E f \in ListOrders(n), t \in [1..n -> StitchTexts] :
             mgr = [input_path |-> InputPath("a.wav"), work_dir |-> MgrDir,
                    chunks |-> [k \in 1..n |-> StitchChunk(f[k], t[k])]]
    /\ pending = <<>>
    /\ pos = 1
    /\ call = NoCall
    /\ replies = <<>>
    /\ run = NoRun
    /\ last = NoLast
    /\ ops = NoOps

StitchFullTranscript ==
    /\ ops.op = "none"
    /\ ops' = [op |-> "get_full_transcript",
               result |-> get_full_transcript(mgr.chunks)]
    /\ UNCHANGED mgr
    /\ FnUnchanged

NextStitch == StitchFullTranscript

SpecStitch == InitStitch /\ [][NextStitch]_vars


\* ------------------------------------------------- segments and subtitles
\* An Optional[list]: None, or a list.
NoneSegments == [some |-> FALSE, list |-> <<>>]
SegmentsOf(l) == [some |-> TRUE, list |-> l]

NoneNum == 0 - 1     \* Python None where a number is expected

\* Mutant: the segment keeps the start the service reported.
SegmentStart_raw(chunk, seg) == seg.start

\* 'start': chunk.start_time + seg.get('start', 0)
SegmentStart(chunk, seg) == chunk.start_time + seg.start

\* The segments one chunk contributes to _collect_segments.
ChunkSegments(chunk) ==
    IF chunk.metadata # <<>> /\ "segments" \in DOMAIN chunk.metadata[1]
    THEN LET segment_list ==
                 IF chunk.metadata[1].segments.some
                 THEN chunk.metadata[1].segments.list ELSE <<>>
         IN [k \in 1..Len(segment_list) |->
                [start |-> SegmentStart(chunk, segment_list[k]),
                 end |-> chunk.start_time + segment_list[k].end,
                 text |-> str_strip(segment_list[k].text)]]
    ELSE <<>>

RECURSIVE CollectFrom(_)
CollectFrom(chunks) ==
    IF chunks = <<>> THEN <<>>
    ELSE ChunkSegments(Head(chunks)) \o CollectFrom(Tail(chunks))

\* Mutant: the chunks are read in list order.
_collect_segments_unsorted(chunks) == CollectFrom(chunks)

\* TranscriptionPipeline._collect_segments
_collect_segments(chunks) == CollectFrom(SortedByIndex(chunks))

\* segments = result.get('segments', []); if segments is None: segments = []
ResultSegments(result) ==
    IF "segments" \in DOMAIN result /\ result.segments.some
    THEN result.segments.list ELSE <<>>

\* not segments or not any(seg.get('start') is not None for seg in segments)
NoTimestamps(segments) ==
    \/ segments = <<>>
    \/ ~ \E k \in 1..Len(segments) : segments[k].start # NoneNum

\* The entries written for the segments from position k on; a segment whose
\* stripped text is empty is skipped (and, in SRT, its number with it).
RECURSIVE Entries(_, _, _)
Entries(segments, k, numbered) ==
    IF k > Len(segments) THEN <<>>
    ELSE (IF str_strip(segments[k].text) = <<>> THEN <<>>
          ELSE << [n |-> IF numbered THEN k ELSE 0,
                   start |-> segments[k].start, end |-> segments[k].end,
                   text |-> str_strip(segments[k].text)] >>)
         \o Entries(segments, k + 1, numbered)

\* Mutant: the file is written whatever the segments are.
write_srt_unchecked(result, out) ==
    [raised |-> FALSE, out |-> << Entries(ResultSegments(result), 1, TRUE) >>]

\* write_srt.  out: <<>> when output_path does not exist, else <<content>>.
write_srt(result, out) ==
    IF NoTimestamps(ResultSegments(result))
    THEN [raised |-> TRUE, out |-> out]
    ELSE [raised |-> FALSE,
          out |-> << Entries(ResultSegments(result), 1, TRUE) >>]

\* write_vtt: the file starts with the WEBVTT header.
write_vtt(result, out) ==
    IF NoTimestamps(ResultSegments(result))
    THEN [raised |-> TRUE, out |-> out]
    ELSE [raised |-> FALSE,
          out |-> << <<"WEBVTT">> \o
                     Entries(ResultSegments(result), 1, FALSE) >>]

\* ------- SpecSegments: _collect_segments and the subtitle writers applied
\* The segments of one reply of the service: each one second long, in any
\* order; the replies of one chunk list hold up to MaxSegs segments.
RawSegments ==
    {[start |-> st, end |-> st + 1, text |-> <<" ", "s">>] :
        st \in 0..MaxSegStart}
RawSegmentLists == UNION {[1..n -> RawSegments] : n \in 1..MaxSegs}

\* The result dictionaries stored as chunk metadata.
SegResults ==
    {[text |-> <<"s">>]}
    \cup {[text |-> <<"s">>, segments |-> NoneSegments],
          [text |-> <<"s">>, segments |-> SegmentsOf(<<>>)]}
    \cup {[text |-> <<"s">>, segments |-> SegmentsOf(l)] :
             l \in RawSegmentLists}

\* A plan of one-second chunks (or the whole-file chunk) with every chunk
\* either pending or completed with a result; InitSegments lists it in
\* index order or reversed.
SegPlans ==
    {create_chunks(T, 0, 1, OPENAI_MAX_CHUNK_SIZE, MgrDir,
                   InputPath("a.wav"), cutFail).chunks :
        T \in 0..MaxDuration, cutFail \in {{}, {0}}}

Completed(plan, md) ==
    [k \in 1..Len(plan) |->
        IF md[k] = <<>> THEN plan[k]
        ELSE [plan[k] EXCEPT !.transcribed = TRUE,
                             !.transcript = md[k][1].text,
                             !.metadata = md[k]]]

\* The number of segments in the results of the first k chunks.
RECURSIVE SegCount(_, _)
SegCount(md, k) ==
    IF k = 0 THEN 0
    ELSE SegCount(md, k - 1)
         + (IF md[k] # <<>> /\ "segments" \in DOMAIN md[k][1]
               /\ md[k][1].segments # NoneSegments
            THEN Len(md[k][1].segments.list) ELSE 0)

InitSegments ==
    /\ max_retries = DefaultMaxRetries
    /\ retry_delay = DefaultRetryDelay
    /\ dirs = {MgrDir}
    /\ files = [d \in Dirs |-> NoFiles]
    /\ pc = "idle"
    /\ config = NoConfig
    /\ temp_dir = 0
    /\ audio_path = NoPath
    /\ \E plan \in SegPlans :
          \E md \in [1..Len(plan) -> {<<>>} \cup {<<r>> : r \in SegResults}] :
             /\ SegCount(md, Len(plan)) <= MaxSegs
             /\ \E c \in {Completed(plan, md),
                           [k \in 1..Len(plan) |->
                               Completed(plan, md)[Len(plan) + 1 - k]]} :
                   mgr = [input_path |-> InputPath("a.wav"),
                          work_dir |-> MgrDir, chunks |-> c]
    /\ pending = <<>>
    /\ pos = 1
    /\ call = NoCall
    /\ replies = <<>>
    /\ run = NoRun
    /\ last = NoLast
    /\ ops = NoOps

SegCollect ==
    /\ ops.op = "none"
    /\ ops' = [op |-> "_collect_segments",
               segments |-> _collect_segments(mgr.chunks)]
    /\ UNCHANGED mgr
    /\ FnUnchanged

\* The results handed to a writer: the pipeline's (the collected list), one
\* whose segments is None, one with no segments key.
WriterResults(segments) ==
    {[text |-> <<"s">>, segments |-> SegmentsOf(segments)],
     [text |-> <<"s">>, segments |-> NoneSegments],
     [text |-> <<"s">>]}

SegWriteSrt ==
    /\ ops.op = "_collect_segments"
    /\ \E result \in WriterResults(ops.segments) :
          LET w == write_srt(result, <<>>) IN
          ops' = [op |-> "write_srt", segments |-> ops.segments,
                  result |-> result, raised |-> w.raised, out |-> w.out]
    /\ UNCHANGED mgr
    /\ FnUnchanged

SegWriteVtt ==
    /\ ops.op = "_collect_segments"
    /\ \E result \in WriterResults(ops.segments) :
          LET w == write_vtt(result, <<>>) IN
          ops' = [op |-> "write_vtt", segments |-> ops.segments,
                  result |-> result, raised |-> w.raised, out |-> w.out]
    /\ UNCHANGED mgr
    /\ FnUnchanged

NextSegments ==
    \/ SegCollect
    \/ SegWriteSrt
    \/ SegWriteVtt

SpecSegments == InitSegments /\ [][NextSegments]_vars


\* ------------------------- OpenAIClient: requests, replies, error messages
DefaultResponseFormat == "verbose_json"   \* transcribe_audio's default

\* The form transcribe_audio posts (timestamp_granularities is sent only
\* when it is not empty; <<>> stands for None and for []).
TranscribeRequest(path, language, model, response_format, tg) ==
    [file |-> path, model |-> model, language |-> language,
     response_format |-> response_format, temperature |-> 0,
     timestamp_granularities |-> tg]

\* response.text: the characters of the body (a JSON body is not its text).
ResponseText(body) ==
    IF body.json THEN <<"{">> \o body.value.text \o <<"}">> ELSE body.value

\* The value transcribe_audio returns for a 200 reply.
ParseReply(request, reply) ==
    LET raw == IF \/ reply.content_type = "application/json"
                  \/ request.response_format \in {"json", "verbose_json"}
               THEN IF reply.body.json THEN reply.body.value
                    ELSE [text |-> ResponseText(reply.body)]
               ELSE [text |-> ResponseText(reply.body)]
    IN [text |-> raw.text,
        segments |-> IF "segments" \in DOMAIN raw THEN raw.segments
                     ELSE NoneSegments,
        raw |-> raw]

\* str(e) of the OpenAITranscriptionError raised, as its list of words.
ErrorMessage(kind, code, body, maxr, path) ==
    CASE kind = "notfound" ->
            <<"Audio", "file", "not", "found:", path.name[1]>>
      [] kind = "status" -> <<"API", "error", ToString(code), ":">> \o body
      [] kind = "TimeoutException" ->
            <<"Request", "timed", "out", "after", "multiple", "retries">>
      [] kind = "RequestError" -> <<"Request", "failed:">> \o body
      [] OTHER -> <<"Failed", "after", ToString(maxr), "attempts">>

LowerWord(w) ==
    CASE w = "API" -> "api"
      [] w = "Audio" -> "audio"
      [] w = "Request" -> "request"
      [] w = "Failed" -> "failed"
      [] w = "Speaker" -> "speaker"
      [] w = "Diarization" -> "diarization"
      [] w = "Unauthorized" -> "unauthorized"
      [] OTHER -> w
str_lower(s) == [k \in 1..Len(s) |-> LowerWord(s[k])]

\* needle in s
Contains(s, needle) ==
    \E i \in 1..(Len(s) - Len(needle) + 1) :
        SubSeq(s, i, i + Len(needle) - 1) = needle

\* The test of the except block of transcribe_with_diarization.
IsUnsupportedSignal(message) ==
    LET error_str == str_lower(message) IN
    \/ Contains(error_str, <<"400">>)
    \/ Contains(error_str, <<"not", "supported">>)
    \/ Contains(error_str, <<"diarize">>)
    \/ Contains(error_str, <<"speaker">>)

\* The first call of transcribe_with_diarization.
DiarizedRequest(a) ==
    TranscribeRequest(a.audio_path, a.language, a.model, "verbose_json",
                      a.timestamp_granularities)

\* Mutant: the fallback asks for plain text.
FallbackRequest_text(a) ==
    TranscribeRequest(a.audio_path, a.language, a.model, "text",
                      a.timestamp_granularities)

\* The fallback call: response_format is left to its default.
FallbackRequest(a) ==
    TranscribeRequest(a.audio_path, a.language, a.model,
                      DefaultResponseFormat, a.timestamp_granularities)

\* ------------------------ SpecDiar: one call of transcribe_with_diarization
DiarAudio == InputPath("a.wav")
DiarArgs ==
    [audio_path : {DiarAudio, ChunkPath(MgrDir, 0)}, language : {"ar"},
     model : {"whisper-1"},
     timestamp_granularities : {<<>>, <<"segment">>}]

\* The bodies of the service's replies.
ErrorBodies ==
    {<<"Unauthorized">>, <<"Diarization", "not", "supported">>,
     <<"Speaker", "labels", "unavailable">>}
SuccessBodies ==
    {[json |-> TRUE,
      value |-> [text |-> <<"t", "1">>,
                 segments |-> SegmentsOf(<<[start |-> 0, end |-> 1,
                                            text |-> <<" ", "s">>]>>)]],
     [json |-> TRUE, value |-> [text |-> <<"t", "1">>]],
     [json |-> FALSE, value |-> <<"t", "2">>]}
\* str(e) of an httpx.RequestError (no reply was received).
TransportErrorText == <<"connection", "refused">>
\* The replies that can follow a POST with the outcome o.
RepliesTo(o) ==
    IF o = Status(200)
    THEN [content_type : {"application/json", "text/plain"},
          body : SuccessBodies]
    ELSE IF o.kind = "status"
    THEN [content_type : {"text/plain"}, body : ErrorBodies]
    ELSE [content_type : {""}, body : {TransportErrorText}]

NoFailure == [kind |-> "none", code |-> 0, message |-> <<>>]
NoReply == [content_type |-> "", body |-> [json |-> FALSE, value |-> <<>>]]
NoResult == [text |-> NoneStr, segments |-> NoneSegments,
             raw |-> [text |-> NoneStr]]

InitDiar ==
    /\ max_retries \in 0..MaxDiarRetries
    /\ retry_delay = DefaultRetryDelay
    /\ dirs = {}
    /\ files = [d \in Dirs |-> NoFiles]
    /\ pc = "idle"
    /\ config = NoConfig
    /\ temp_dir = 0
    /\ audio_path = NoPath
    /\ mgr = NoMgr
    /\ pending = <<>>
    /\ pos = 1
    /\ call = NoCall
    /\ replies = <<>>
    /\ run = NoRun
    /\ last = NoLast
    /\ ops = NoOps

DiarUnchanged ==
    UNCHANGED <<max_retries, retry_delay, dirs, files, pc, config, temp_dir,
                audio_path, mgr, pending, pos, replies, run, last>>

\* A transcribe_audio call of transcribe_with_diarization raised, with the
\* wrapper in state o: the except block falls back or re-raises.
DiarRaised(o, kind, code, body) ==
    LET message == ErrorMessage(kind, code, body, max_retries,
                                o.args.audio_path)
        failure == [kind |-> kind, code |-> code, message |-> message]
    IN
    IF o.phase = "first" /\ IsUnsupportedSignal(message)
    THEN LET c == CallEnter(dirs, 0, o.args.audio_path) IN
         IF c.cpc = "raised"
         THEN [ops |-> [o EXCEPT !.phase = "raised", !.calls = 2,
                                 !.first = failure,
                                 !.request = FallbackRequest(o.args)],
               call |-> c]
         ELSE [ops |-> [o EXCEPT !.phase = "fallback", !.calls = 2,
                                 !.first = failure,
                                 !.request = FallbackRequest(o.args)],
               call |-> c]
    ELSE [ops |-> IF o.phase = "first"
                  THEN [o EXCEPT !.phase = "raised", !.first = failure]
                  ELSE [o EXCEPT !.phase = "raised"],
          call |-> [call EXCEPT !.cpc = "raised"]]

\* A caller awaits transcribe_with_diarization(audio_path, ...).
DiarCall(a) ==
    /\ ops.op = "none"
    /\ LET o == [op |-> "transcribe_with_diarization", phase |-> "first",
                 calls |-> 1, posts |-> 0, args |-> a,
                 request |-> DiarizedRequest(a), first |-> NoFailure,
                 reply |-> NoReply, result |-> NoResult]
           c == CallEnter(dirs, 0, a.audio_path)
       IN IF c.cpc = "raised"
          THEN LET r == DiarRaised(o, "notfound", 0, <<>>) IN
               ops' = r.ops /\ call' = r.call
          ELSE ops' = o /\ call' = c
    /\ DiarUnchanged

DiarPost ==
    /\ ops.op = "transcribe_with_diarization"
    /\ call.cpc = "loop"
    /\ LoopContinues(call, max_retries)
    /\ call' = CallPost(call)
    /\ ops' = [ops EXCEPT !.posts = @ + 1]
    /\ DiarUnchanged

DiarExhausted ==
    /\ ops.op = "transcribe_with_diarization"
    /\ call.cpc = "loop"
    /\ ~LoopContinues(call, max_retries)
    /\ LET r == DiarRaised(ops, "exhausted", 0, <<>>) IN
       ops' = r.ops /\ call' = r.call
    /\ DiarUnchanged

DiarReply(o, reply) ==
    /\ ops.op = "transcribe_with_diarization"
    /\ call.cpc = "inflight"
    /\ LET result == ParseReply(ops.request, reply)
           c == CallReply(call, o, result.text, max_retries, retry_delay)
       IN
       IF c.cpc = "returned"
       THEN /\ call' = c
            /\ ops' = [ops EXCEPT !.phase = "returned", !.reply = reply,
                                  !.result = result]
       ELSE IF c.cpc = "raised"
       THEN LET r == DiarRaised(ops, o.kind, o.code, reply.body) IN
            ops' = r.ops /\ call' = r.call
       ELSE call' = c /\ UNCHANGED ops
    /\ DiarUnchanged

DiarWake ==
    /\ ops.op = "transcribe_with_diarization"
    /\ call.cpc = "sleep"
    /\ call' = CallWake(call)
    /\ UNCHANGED ops
    /\ DiarUnchanged

NextDiar ==
    \/ \E a \in DiarArgs : DiarCall(a)
    \/ DiarPost
    \/ DiarExhausted
    \/ \E o \in Outcomes : \E reply \in RepliesTo(o) : DiarReply(o, reply)
    \/ DiarWake

SpecDiar == InitDiar /\ [][NextDiar]_vars


\* ------------------------------------ youtube.download_captions_text
\* A .vtt file of the output directory: <id>.<lang>.vtt, and who wrote it.
VttFile(id, lang, by) == [id |-> id, lang |-> lang, by |-> by]
NoVtt == VttFile("", "", "none")

\* build_ytdlp_captions_command
build_ytdlp_captions_command(url, lang, output_dir, auto) ==
    [flag |-> IF auto THEN "--write-auto-subs" ELSE "--write-subs",
     lang |-> lang, output_dir |-> output_dir, url |-> url]

\* find_caption_file: the files glob("*.<lang>.vtt") lists, else the files
\* glob("*.vtt") lists; the first one listed is returned, and the order of
\* the listing is the file system's.
CaptionCandidates(vtts, lang) ==
    LET candidates == {f \in vtts : f.lang = lang} IN
    IF candidates # {} THEN candidates ELSE vtts

\* Mutant: the auto-generated subtitles are always tried.
ManualNotFound_always(caption_file) == TRUE

\* "if not caption_file" after the manual attempt.
ManualNotFound(caption_file) == caption_file = NoVtt

\* ------------------------- SpecCaptions: one call of download_captions_text
CaptionLangs == {"ar", "en"}
CaptionUrls == {"v1", "v2"}
\* Files left in the directory by earlier work.
OldVtts == {VttFile("old", l, "old") : l \in {"ar", "en", "fr"}}

InitCaptions ==
    /\ max_retries = DefaultMaxRetries
    /\ retry_delay = DefaultRetryDelay
    /\ dirs \in {{}, {MgrDir}}
    /\ files = [d \in Dirs |-> NoFiles]
    /\ pc = "idle"
    /\ config = NoConfig
    /\ temp_dir = 0
    /\ audio_path = NoPath
    /\ mgr = NoMgr
    /\ pending = <<>>
    /\ pos = 1
    /\ call = NoCall
    /\ replies = <<>>
    /\ run = NoRun
    /\ last = NoLast
    /\ \E url \in CaptionUrls, lang \in CaptionLangs,
          vtts \in (IF dirs = {} THEN {{}} ELSE SUBSET OldVtts) :
          ops = [op |-> "download_captions_text", at |-> "start",
                 url |-> url, lang |-> lang, output_dir |-> MgrDir,
                 vtts |-> vtts, log |-> <<>>, manual_file |-> NoVtt,
                 caption_file |-> NoVtt, used_auto |-> FALSE]

CaptionsUnchanged ==
    UNCHANGED <<max_retries, retry_delay, files, pc, config, temp_dir,
                audio_path, mgr, pending, pos, call, replies, run, last>>

\* What one run of the downloader leaves in the directory: nothing, or the
\* subtitles of the video in the language asked for.
Downloaded(cmd, by) == {{}, {VttFile(cmd.url, cmd.lang, by)}}

\* From the entry to the end of the manual attempt: the function returns
\* with the file found, or goes on to the auto-generated subtitles.
CaptionsManual ==
    /\ ops.at = "start"
    /\ dirs' = dirs \cup {ops.output_dir}
    /\ LET cmd_manual == build_ytdlp_captions_command(ops.url, ops.lang,
                                                      ops.output_dir, FALSE)
       IN \E wrote \in Downloaded(cmd_manual, "manual") :
          LET vtts == ops.vtts \cup wrote
              found == CaptionCandidates(vtts, ops.lang)
          IN \E caption_file \in (IF found = {} THEN {NoVtt} ELSE found) :
             ops' = [ops EXCEPT
                       !.vtts = vtts,
                       !.log = <<cmd_manual>>,
                       !.manual_file = caption_file,
                       !.caption_file = caption_file,
                       !.used_auto = FALSE,
                       !.at = IF ManualNotFound(caption_file) THEN "auto"
                              ELSE "returned"]
    /\ CaptionsUnchanged

\* The auto-generated attempt, to the end of the function.
CaptionsAuto ==
    /\ ops.at = "auto"
    /\ LET cmd_auto == build_ytdlp_captions_command(ops.url, ops.lang,
                                                    ops.output_dir, TRUE)
       IN \E wrote \in Downloaded(cmd_auto, "auto") :
          LET vtts == ops.vtts \cup wrote
              found == CaptionCandidates(vtts, ops.lang)
          IN \E caption_file \in (IF found = {} THEN {NoVtt} ELSE found) :
             ops' = [ops EXCEPT
                       !.vtts = vtts,
                       !.log = Append(@, cmd_auto),
                       !.caption_file = caption_file,
                       !.used_auto = TRUE,
                       !.at = IF caption_file = NoVtt THEN "raised"
                              ELSE "returned"]
    /\ UNCHANGED dirs
    /\ CaptionsUnchanged

NextCaptions == CaptionsManual \/ CaptionsAuto

SpecCaptions == InitCaptions /\ [][NextCaptions]_vars


\* ------------- SpecFormat: the requests _transcribe_chunks makes of the client
\* response_format chosen from the job's output format.
ResponseFormatFor(output_format) ==
    IF output_format \in {"srt", "vtt", "json"} THEN "verbose_json" ELSE "text"

\* timestamp_granularities chosen from the response format and the model
\* (<<>> stands for None).
GranularitiesFor(response_format, model) ==
    IF response_format = "verbose_json" /\ model = "whisper-1"
    THEN <<"segment">> ELSE <<>>

\* config.model or settings.openai_model ("" stands for None).
ModelFor(o) == IF o.model # "" THEN o.model ELSE o.openai_model

\* The arguments of the client call made for a pending chunk.
ChunkCallArgs(o, chunk) ==
    [audio_path |-> chunk.file_path, language |-> o.language,
     model |-> ModelFor(o),
     timestamp_granularities |->
         GranularitiesFor(ResponseFormatFor(o.output_format), ModelFor(o))]

\* The form first posted for a pending chunk.
ChunkRequest(o, chunk) ==
    LET a == ChunkCallArgs(o, chunk) IN
    IF o.diarize THEN DiarizedRequest(a)
    ELSE TranscribeRequest(a.audio_path, a.language, a.model,
                           ResponseFormatFor(o.output_format),
                           a.timestamp_granularities)

\* A job configuration and the settings' model, before the chunk loop.
FormatInputs ==
    [op : {"TranscribeConfig"},
     output_format : {"text", "json", "srt", "vtt"},
     diarize : BOOLEAN,
     model : {"", "whisper-1", "gpt-4o-transcribe"},
     openai_model : {"whisper-1", "gpt-4o-mini-transcribe"},
     language : {"ar", "en"},
     request : {TranscribeRequest(NoPath, "", "", "", <<>>)}]

InitFormat ==
    /\ max_retries = DefaultMaxRetries
    /\ retry_delay = DefaultRetryDelay
    /\ dirs = {MgrDir}
    /\ files = [d \in Dirs |-> NoFiles]
    /\ pc = "idle"
    /\ config = NoConfig
    /\ temp_dir = 0
    /\ audio_path = NoPath
    /\ mgr = [input_path |-> InputPath("a.wav"), work_dir |-> MgrDir,
              chunks |-> << AudioChunk(0, 0, 1, ChunkPath(MgrDir, 0)) >>]
    /\ pending = <<>>
    /\ pos = 1
    /\ call = NoCall
    /\ replies = <<>>
    /\ run = NoRun
    /\ last = NoLast
    /\ ops \in FormatInputs

\* _transcribe_chunks reaches the client call for the pending chunk.
FormatTranscribeChunk ==
    /\ ops.op = "TranscribeConfig"
    /\ ops' = [ops EXCEPT !.op = "_transcribe_chunks",
                          !.request = ChunkRequest(ops, mgr.chunks[1])]
    /\ UNCHANGED mgr
    /\ FnUnchanged

\* In diarize mode the first call failed with an unsupported signal: the
\* wrapper posts its fallback form.
FormatFallback ==
    /\ ops.op = "_transcribe_chunks"
    /\ ops.diarize
    /\ ops' = [ops EXCEPT !.op = "fallback",
                          !.request = FallbackRequest(
                                          ChunkCallArgs(ops, mgr.chunks[1]))]
    /\ UNCHANGED mgr
    /\ FnUnchanged

NextFormat ==
    \/ FormatTranscribeChunk
    \/ FormatFallback

SpecFormat == InitFormat /\ [][NextFormat]_vars


\* ------------ SpecJob: runs of one job configuration, its verbose flag and
\* the size of its input file known (the service answers 200 or 400)
\* A TranscribeConfig: verbose, and the size of the file at input_path.
JobConfigs ==
    [op : {"TranscribeConfig"}, result : {FALSE}, verbose : BOOLEAN,
     size : 0..MaxSize]

InitJob ==
    /\ max_retries = 1
    /\ retry_delay = DefaultRetryDelay
    /\ dirs = {}
    /\ files = [d \in Dirs |-> NoFiles]
    /\ pc = "idle"
    /\ config = NoConfig
    /\ temp_dir = 0
    /\ audio_path = NoPath
    /\ mgr = NoMgr
    /\ pending = <<>>
    /\ pos = 1
    /\ call = NoCall
    /\ replies = <<>>
    /\ run = NoRun
    /\ last = NoLast
    /\ ops \in JobConfigs

\* get_file_size(audio_path): the original file has the job's size, a
\* transcoded file any size.
PreparedSizes ==
    IF audio_path = config.input_path THEN {ops.size} ELSE 0..MaxSize

NextJob ==
    \/ \E p \in JobInputs, ok \in BOOLEAN : PrepareAudio(p, FALSE, ok)
    \/ \E T \in 0..MaxDuration, size \in PreparedSizes :
          SetupChunking(T, size, {})
    \/ BeginTranscribe
    \/ TranscribeAudio
    \/ Post
    \/ \E o \in {Status(200), Status(400)} : Reply(o, <<"t", "1">>)
    \/ MarkCompleted
    \/ RunComplete

SpecJob == InitJob /\ [][NextJob]_vars


\* ----- SpecSave: save_checkpoint step by step, with a crash and a reader
\* The content of a checkpoint file opened with mode 'w' and not yet
\* closed: open() has truncated it and json.dump has written some prefix
\* of the document, possibly none.
TornFile == [torn |-> TRUE]

\* load_checkpoint on a file as it is found on disk: json.load raises on an
\* empty or incomplete text, the except block logs it and returns False.
load_checkpoint_file(ds, fl, wd, input_path, chunks) ==
    LET f == IF wd \in ds THEN fl[wd][get_file_hash(input_path)] ELSE <<>> IN
    IF f = << TornFile >>
    THEN [loaded |-> FALSE, chunks |-> chunks]
    ELSE load_checkpoint(ds, fl, wd, input_path, chunks)

\* A manager over a plan of one-second chunks, some of them completed, and
\* its checkpoint as the last save_checkpoint left it.
InitSave ==
    /\ max_retries = DefaultMaxRetries
    /\ retry_delay = DefaultRetryDelay
    /\ dirs = {MgrDir}
    /\ pc = "idle"
    /\ config = NoConfig
    /\ temp_dir = 0
    /\ audio_path = NoPath
    /\ \E T \in 1..MaxDuration :
          LET plan == create_chunks(T, 0, 1, OPENAI_MAX_CHUNK_SIZE, MgrDir,
                                    InputPath("a.wav"), {}).chunks IN
          \E tx \in [1..Len(plan) -> {NoneStr} \cup Texts] :
             LET chunks == [k \in 1..Len(plan) |->
                              IF tx[k] = NoneStr THEN plan[k]
                              ELSE [plan[k] EXCEPT
                                      !.transcribed = TRUE,
                                      !.transcript = tx[k],
                                      !.metadata = <<[text |-> tx[k]]>>]] IN
             /\ mgr = [input_path |-> InputPath("a.wav"),
                       work_dir |-> MgrDir, chunks |-> chunks]
             /\ files = save_checkpoint([d \in Dirs |-> NoFiles], MgrDir,
                                        InputPath("a.wav"), chunks)
             /\ ops = [op |-> "none", result |-> FALSE,
                       prev |-> CheckpointData(InputPath("a.wav"), chunks),
                       next |-> CheckpointData(InputPath("a.wav"), chunks),
                       seen |-> <<>>]
    /\ pending = <<>>
    /\ pos = 1
    /\ call = NoCall
    /\ replies = <<>>
    /\ run = NoRun
    /\ last = NoLast

\* mark_chunk_completed updates the chunk in memory and enters
\* save_checkpoint, whose open(checkpoint_file, 'w') truncates the file.
SaveOpen(index, text) ==
    /\ ops.op \in {"none", "saved"}
    /\ mgr.work_dir # 0
    /\ \E k \in 1..Len(mgr.chunks) : mgr.chunks[k].index = index
    /\ LET chunks == MarkInMemory(mgr.chunks, index, text, [text |-> text]) IN
       /\ mgr' = [mgr EXCEPT !.chunks = chunks]
       /\ files' = [files EXCEPT
                       ![mgr.work_dir][get_file_hash(mgr.input_path)] =
                           << TornFile >>]
       /\ ops' = [ops EXCEPT !.op = "open", !.prev = ops.next,
                             !.next = CheckpointData(mgr.input_path, chunks),
                             !.seen = <<>>]
    /\ UNCHANGED dirs
    /\ MgrUnchanged

\* json.dump has written the whole document and the with block closes the
\* file: save_checkpoint returns.
SaveDump ==
    /\ ops.op = "open"
    /\ files' = save_checkpoint(files, mgr.work_dir, mgr.input_path,
                                mgr.chunks)
    /\ ops' = [ops EXCEPT !.op = "saved"]
    /\ UNCHANGED <<dirs, mgr>>
    /\ MgrUnchanged

\* The process dies inside save_checkpoint: the manager is gone, the file
\* stays as it was.
SaveCrash ==
    /\ ops.op = "open"
    /\ mgr' = NoMgr
    /\ ops' = [ops EXCEPT !.op = "crashed"]
    /\ UNCHANGED <<dirs, files>>
    /\ MgrUnchanged

\* A reader (another process, or the next run) builds a manager for the
\* same input and work directory and calls load_checkpoint.
SaveRead ==
    /\ ops.op \in {"none", "open", "saved", "crashed"}
    /\ ops.seen = <<>>
    /\ ops' = [ops EXCEPT !.seen =
                  << load_checkpoint_file(dirs, files, MgrDir,
                                          InputPath("a.wav"), <<>>) >>]
    /\ UNCHANGED <<dirs, files, mgr>>
    /\ MgrUnchanged

NextSave ==
    \/ \E index \in 0..(MaxDuration - 1), text \in Texts :
          SaveOpen(index, text)
    \/ SaveDump
    \/ SaveCrash
    \/ SaveRead

SpecSave == InitSave /\ [][NextSave]_vars


\* ------------- SpecYoutube: youtube commands that share an output directory
\* out/.tmp is the directory MgrDir; ops.vtts and ops.audio are the subtitle
\* and audio files it holds, ops.left those it held when the job began.
AudioFile(id, ext) == [id |-> id, ext |-> ext]

\* The value download_captions_text returns.
CaptionsReturn(o) == <<"cleaned_text", "segments", o.used_auto, "vtt_text">>

\* "text, segments, used_auto = <value>": unpacking raises ValueError
\* unless the value has exactly three items.
UnpackRaises(value, targets) == Len(value) # targets

\* download_audio lists the audio files extension by extension ('m4a'
\* before 'wav') and takes the first of the listing.
AudioCandidates(audio) ==
    LET m4a == {f \in audio : f.ext = "m4a"} IN
    IF m4a # {} THEN m4a ELSE audio

\* No command has run yet in the output directory.
InitYoutube ==
    /\ max_retries = DefaultMaxRetries
    /\ retry_delay = DefaultRetryDelay
    /\ dirs = {}
    /\ files = [d \in Dirs |-> NoFiles]
    /\ pc = "idle"
    /\ config = NoConfig
    /\ temp_dir = 0
    /\ audio_path = NoPath
    /\ mgr = NoMgr
    /\ pending = <<>>
    /\ pos = 1
    /\ call = NoCall
    /\ replies = <<>>
    /\ run = NoRun
    /\ last = NoLast
    /\ ops = [op |-> "youtube", at |-> "exited", job |-> 0, url |-> "",
              lang |-> "", source |-> "", verbose |-> FALSE,
              output_dir |-> MgrDir, vtts |-> {}, audio |-> {}, left |-> {},
              log |-> <<>>, manual_file |-> NoVtt, caption_file |-> NoVtt,
              used_auto |-> FALSE, invoked |-> {}, consumed |-> {},
              written |-> FALSE, exit |-> 0]

\* The command's exit: sys.exit(code), after shutil.rmtree(temp_dir) when
\* the end of the try block was reached with verbose off.
YoutubeExit(o, code, rmtree) ==
    /\ ops' = [o EXCEPT !.at = "exited", !.exit = code,
                        !.vtts = IF rmtree THEN {} ELSE @,
                        !.audio = IF rmtree THEN {} ELSE @]
    /\ dirs' = IF rmtree THEN dirs \ {o.output_dir} ELSE dirs

\* youtube(url, lang, source, verbose) up to the choice of the source:
\* ensure_dir(out), temp_dir = ensure_dir(out / ".tmp").
YoutubeStart(url, lang, source, verbose) ==
    /\ ops.at = "exited"
    /\ ops.job < MaxJobs
    /\ dirs' = dirs \cup {ops.output_dir}
    /\ ops' = [ops EXCEPT !.job = @ + 1, !.url = url, !.lang = lang,
                          !.source = source, !.verbose = verbose,
                          !.at = IF source = "captions" THEN "start"
                                 ELSE "audio",
                          !.left = ops.vtts \cup ops.audio,
                          !.log = <<>>, !.manual_file = NoVtt,
                          !.caption_file = NoVtt, !.used_auto = FALSE,
                          !.invoked = {}, !.consumed = {},
                          !.written = FALSE, !.exit = 0]
    /\ CaptionsUnchanged

\* The captions branch after download_captions_text: FileNotFoundError
\* exits with 1; the value returned is unpacked, the result is written and
\* the command leaves through the end of the try block.
YoutubeCaptions ==
    /\ ops.source = "captions"
    /\ ops.at \in {"returned", "raised"}
    /\ IF ops.at = "raised"
       THEN YoutubeExit(ops, 1, FALSE)
       ELSE LET o == [ops EXCEPT !.consumed = {ops.caption_file}] IN
            IF UnpackRaises(CaptionsReturn(ops), 3)
            THEN YoutubeExit(o, 1, FALSE)
            ELSE YoutubeExit([o EXCEPT !.written = TRUE], 0, ~ops.verbose)
    /\ CaptionsUnchanged

\* The audio branch: download_audio (the downloader, the listing, the
\* transcoder), transcribe_file, _write_output.  rc: the downloader's exit
\* status is 0; conv, run: the transcoder and the pipeline succeed.
YoutubeAudio(rc, conv, run_ok) ==
    /\ ops.at = "audio"
    /\ IF ~rc
       THEN YoutubeExit([ops EXCEPT !.invoked = {"yt-dlp"}], 1, FALSE)
       ELSE LET audio == ops.audio \cup {AudioFile(ops.url, "m4a")} IN
            \E downloaded_path \in AudioCandidates(audio) :
               LET wav == AudioFile(downloaded_path.id, "wav")
                   o == [ops EXCEPT !.audio = audio,
                                    !.consumed = {downloaded_path},
                                    !.invoked = {"yt-dlp", "ffmpeg"}]
               IN IF ~conv
                  THEN YoutubeExit(o, 1, FALSE)
                  ELSE LET p == [o EXCEPT !.audio = audio \cup {wav},
                                          !.invoked = @ \cup {"client"}] IN
                       IF ~run_ok
                       THEN YoutubeExit(p, 1, FALSE)
                       ELSE YoutubeExit([p EXCEPT !.written = TRUE], 0,
                                        ~ops.verbose)
    /\ CaptionsUnchanged

NextYoutube ==
    \/ \E url \in CaptionUrls, lang \in CaptionLangs,
          source \in {"captions", "audio"}, verbose \in BOOLEAN :
          YoutubeStart(url, lang, source, verbose)
    \/ CaptionsManual
    \/ CaptionsAuto
    \/ YoutubeCaptions
    \/ \E rc \in BOOLEAN, conv \in BOOLEAN, run_ok \in BOOLEAN :
          YoutubeAudio(rc, conv, run_ok)

SpecYoutube == InitYoutube /\ [][NextYoutube]_vars

\* ================================================================= claims
PostCount(log) == Cardinality({j \in 1..Len(log) : log[j].t = "post"})

IsRetryable(o) ==
    \/ o \in {TimeoutException, RequestError}
    \/ o.kind = "status" /\ (o.code = 429 \/ o.code >= 500)

IsOtherClientError(o) ==
    o.kind = "status" /\ o.code >= 400 /\ o.code < 500 /\ o.code # 429

\* C1: a transcribe_audio call issues at most max_retries POSTs, whatever
\* the service replies.
C1_RetryBounded == PostCount(call.log) <= max_retries

C1_Witness ==
    /\ call.cpc = "raised"
    /\ max_retries >= 2
    /\ PostCount(call.log) = max_retries

\* C2: every POST after the first follows a POST that met a retryable reply
\* and a wait of retry_delay * 2^k, k the number of that earlier attempt; the
\* replies 429, 429, 200 with max_retries >= 3 give three POSTs, the waits d
\* and 2d, and a result.
C2_BackoffSchedule ==
    /\ \A j \in 1..Len(call.log) :
          (call.log[j].t = "post" /\ call.log[j].v > 0) =>
             /\ j >= 3
             /\ call.log[j - 1] =
                   WaitEvent(retry_delay * (2 ^ (call.log[j].v - 1)))
             /\ call.log[j - 2] = PostEvent(call.log[j].v - 1)
             /\ IsRetryable(replies[call.log[j].v])
    /\ (replies = <<Status(429), Status(429), Status(200)>> /\ max_retries >= 3)
          => /\ call.cpc = "returned"
             /\ call.log = <<PostEvent(0), WaitEvent(retry_delay),
                             PostEvent(1), WaitEvent(2 * retry_delay),
                             PostEvent(2)>>

C2_Witness ==
    /\ replies = <<Status(429), Status(429), Status(200)>>
    /\ max_retries >= 3
    /\ call.cpc = "returned"

\* C3: a 4xx reply other than 429 ends the call with an error at once: the
\* POST that met it is the last event of the call, at any attempt number.
C3_ClientErrorNotRetried ==
    (replies # <<>> /\ IsOtherClientError(replies[Len(replies)])) =>
        /\ call.cpc = "raised"
        /\ call.log # <<>>
        /\ call.log[Len(call.log)] = PostEvent(Len(replies) - 1)
        /\ PostCount(call.log) = Len(replies)

C3_Witness ==
    /\ Len(replies) >= 2
    /\ IsOtherClientError(replies[Len(replies)])
    /\ call.cpc = "raised"

Aborted == {"chunk_failed", "cancelled"}

\* The checkpoint document of input path p in directory d records chunk
\* index i as transcribed.
RecordsDone(d, p, i) ==
    LET f == files[d][get_file_hash(p)] IN
    /\ f # <<>>
    /\ f[1].input_path = PathToStr(p)
    /\ \E k \in 1..Len(f[1].chunks) :
          f[1].chunks[k].index = i /\ f[1].chunks[k].transcribed

\* C4: after a run aborted by a chunk failure or by cancellation, the
\* checkpoint file exists and records every chunk completed before the abort.
C4_CheckpointSurvivesAbort ==
    (pc = "idle" /\ last.outcome \in Aborted) =>
        \E d \in dirs :
            /\ files[d][get_file_hash(last.input_path)] # <<>>
            /\ \A i \in last.done : RecordsDone(d, last.input_path, i)

C6_SecondRunUploadsNothing ==
    (/\ pc = "transcribing"
     /\ config.resume
     /\ last.resume
     /\ last.outcome = "ok"
     /\ last.input_path = config.input_path) =>
        run.calls = <<>>

\* The checkpoint file the manager addresses holds another input's path.
StoredForOtherInput ==
    /\ mgr.work_dir \in dirs
    /\ files[mgr.work_dir][get_file_hash(mgr.input_path)] # <<>>
    /\ files[mgr.work_dir][get_file_hash(mgr.input_path)][1].input_path
          # PathToStr(mgr.input_path)

\* C7: load_checkpoint on a file that stores another input_path returns
\* False, leaves the manager's chunks as they were and the file in place;
\* the plan create_chunks then makes has every chunk pending.
C7_ForeignCheckpointIgnored ==
    /\ [][(ops'.op = "load_checkpoint" /\ StoredForOtherInput) =>
             /\ ops'.result = FALSE
             /\ mgr'.chunks = mgr.chunks
             /\ files' = files
             /\ dirs' = dirs]_vars
    /\ [](ops.op = "create_chunks" /\ ops.result =>
             \A k \in 1..Len(mgr.chunks) :
                 /\ ~mgr.chunks[k].transcribed
                 /\ mgr.chunks[k].transcript = NoneStr
                 /\ mgr.chunks[k].metadata = <<>>)

C7_Witness ==
    /\ ops.op = "load_checkpoint"
    /\ ~ops.result
    /\ StoredForOtherInput
    /\ \E k \in 1..Len(files[mgr.work_dir][get_file_hash(mgr.input_path)][1].chunks) :
          files[mgr.work_dir][get_file_hash(mgr.input_path)][1].chunks[k].transcribed

\* C8: within a run, an entry written to the checkpoint as transcribed is
\* transcribed in every later write of the file, and a chunk transcribed in
\* memory stays so.
C8_CompletionMonotonic ==
    [][/\ \A d \in Dirs, h \in Hashes :
             (files[d][h] # <<>> /\ files'[d][h] # <<>>) =>
                \A k \in 1..Len(files[d][h][1].chunks) :
                    files[d][h][1].chunks[k].transcribed =>
                       \E j \in 1..Len(files'[d][h][1].chunks) :
                          /\ files'[d][h][1].chunks[j].index
                                = files[d][h][1].chunks[k].index
                          /\ files'[d][h][1].chunks[j].transcribed
       /\ (mgr.work_dir # 0 /\ mgr'.work_dir # 0) =>
             \A k \in 1..Len(mgr.chunks) :
                 mgr.chunks[k].transcribed =>
                    (k <= Len(mgr'.chunks) /\ mgr'.chunks[k].transcribed)]_vars

C8_Witness ==
    /\ pc = "transcribing"
    /\ call.cpc = "marked"
    /\ Cardinality(DoneSet(mgr.chunks)) >= 2
    /\ \A i \in DoneSet(mgr.chunks) : RecordsDone(temp_dir, config.input_path, i)

\* The checkpoint of the current run records chunk i as transcribed with
\* the transcript t.
Recorded(i, t) ==
    LET f == files[temp_dir][get_file_hash(config.input_path)] IN
    /\ f # <<>>
    /\ \E k \in 1..Len(f[1].chunks) :
          /\ f[1].chunks[k].index = i
          /\ f[1].chunks[k].transcribed
          /\ f[1].chunks[k].transcript = t

\* C9: while a call for a chunk is in its retry loop, every upload that
\* succeeded earlier in the run is in the checkpoint file with its text; and
\* the file marks a chunk transcribed only with the text an upload returned.
C9_DurableBeforeNextAttempt ==
    /\ (pc = "transcribing" /\ call.cpc \in {"loop", "inflight", "sleep"}) =>
          \A j \in 1..Len(run.returned) :
              Recorded(run.returned[j][1], run.returned[j][2])
    /\ \A d \in dirs, h \in Hashes :
          files[d][h] # <<>> =>
             \A k \in 1..Len(files[d][h][1].chunks) :
                 files[d][h][1].chunks[k].transcribed =>
                    \E j \in 1..Len(run.returned) :
                       run.returned[j] = <<files[d][h][1].chunks[k].index,
                                           files[d][h][1].chunks[k].transcript>>

C9_Witness ==
    /\ pc = "transcribing"
    /\ call.cpc = "inflight"
    /\ run.returned # <<>>
    /\ Recorded(run.returned[1][1], run.returned[1][2])

\* C10: the calls of a run go up in chunk index; a call for a chunk is under
\* way only when every chunk of lower index is transcribed after an upload
\* of this run; and a run a chunk failed in made no call after that chunk's.
C10_AscendingOneAtATime ==
    /\ \A j \in 1..(Len(run.calls) - 1) : run.calls[j] < run.calls[j + 1]
    /\ (pc = "transcribing"
        /\ call.cpc \in {"loop", "inflight", "sleep", "returned"}) =>
          \A k \in 1..Len(mgr.chunks) :
              mgr.chunks[k].index < call.chunk =>
                 /\ mgr.chunks[k].transcribed
                 /\ \E j \in 1..Len(run.returned) :
                       run.returned[j][1] = mgr.chunks[k].index
    /\ last.outcome = "chunk_failed" =>
          /\ last.calls # <<>>
          /\ last.calls[Len(last.calls)] \notin last.done
          /\ \A j \in 1..(Len(last.calls) - 1) :
                /\ last.calls[j] \in last.done
                /\ last.calls[j] < last.calls[j + 1]

C10_Witness ==
    /\ pc = "transcribing"
    /\ call.cpc = "inflight"
    /\ Len(run.calls) = 2
    /\ Len(pending) = 2


RECURSIVE SumDurations(_)
SumDurations(chunks) ==
    IF chunks = <<>> THEN 0
    ELSE Head(chunks).duration + SumDurations(Tail(chunks))

\* C11: every plan create_chunks returns for an audio of probed duration
\* T > 0 has chunk durations that sum to T and strictly increasing start
\* times.
C11_PlanCoversDuration ==
    (ops.op = "create_chunks" /\ ops.result /\ ops.T > 0) =>
        /\ SumDurations(mgr.chunks) = ops.T
        /\ \A k \in 1..(Len(mgr.chunks) - 1) :
              mgr.chunks[k].start_time < mgr.chunks[k + 1].start_time

\* C12: for T > 0 and a positive byte rate r = size / T, planning completes
\* with a plan (the effective chunk duration is never below one second) and
\* every planned chunk lasts at most max(1, B / r), B being the manager's
\* byte ceiling.
C12_EffectiveDurationFloor ==
    (ops.op = "create_chunks" /\ ops.T > 0 /\ ops.size > 0) =>
        LET B == Min(ops.max_chunk_size, OPENAI_MAX_CHUNK_SIZE) IN
        /\ ops.result
        /\ \A k \in 1..Len(mgr.chunks) :
              mgr.chunks[k].duration * ops.size <= Max(ops.size, B * ops.T)


\* C17: normalize_whitespace is idempotent: normalizing a normalized text
\* over spaces, tabs, newlines and non-blank characters changes nothing.
C17_NormalizeIdempotent ==
    ops.op = "normalize_whitespace" =>
        normalize_whitespace(ops.result) = ops.result


\* The chunks of the list c in ascending order of index.
Ascending(c) ==
    [i \in 1..Len(c) |-> c[CHOOSE k \in 1..Len(c) : c[k].index = i - 1]]

\* The words of the transcripts of the list c, in list order.
RECURSIVE WordsOf(_)
WordsOf(c) ==
    IF c = <<>> THEN <<>>
    ELSE (IF Head(c).transcript = NoneStr THEN <<>>
          ELSE str_split(Head(c).transcript))
         \o WordsOf(Tail(c))

\* C13: get_full_transcript returns the non-empty transcripts in ascending
\* index order whatever the order of the chunk list, joined by single
\* spaces, every run of whitespace collapsed to one space, with no leading
\* or trailing whitespace.
C13_StitchInIndexOrder ==
    ops.op = "get_full_transcript" =>
        LET r == ops.result
            asc == Ascending(mgr.chunks)
        IN
        /\ r = str_join(<<" ">>, WordsOf(asc))
        /\ r = get_full_transcript(asc)
        /\ \A k \in 1..Len(r) : r[k] \in Whitespace => r[k] = " "
        /\ \A k \in 1..(Len(r) - 1) : ~(r[k] = " " /\ r[k + 1] = " ")
        /\ r # <<>> => (r[1] # " " /\ r[Len(r)] # " ")

C13_Witness ==
    /\ ops.op = "get_full_transcript"
    /\ Len(mgr.chunks) = 3
    /\ mgr.chunks[1].index = 2 /\ mgr.chunks[1].transcript = <<" ", "a", " ">>
    /\ mgr.chunks[2].index = 0
    /\ mgr.chunks[2].transcript = <<"b", "\t", "\n", "c">>
    /\ mgr.chunks[3].index = 1 /\ mgr.chunks[3].transcript = NoneStr
    /\ ops.result = <<"b", " ", "c", " ", "a">>


Monotonic(segments) ==
    \A k \in 1..(Len(segments) - 1) :
        segments[k].start <= segments[k + 1].start

\* C14 (as stated): in the list _collect_segments produces, every two
\* adjacent segments a, b satisfy a.start <= b.start.
C14_SegmentsMonotonic ==
    ops.op # "none" => Monotonic(ops.segments)

\* The segments stored with the chunk are in non-decreasing order of start
\* and each starts within the chunk: 0 <= start <= chunk.duration.
RawWithinChunk(chunk) ==
    (chunk.metadata # <<>> /\ "segments" \in DOMAIN chunk.metadata[1]) =>
        LET l == chunk.metadata[1].segments.list IN
        /\ Monotonic(l)
        /\ \A k \in 1..Len(l) : 0 <= l[k].start /\ l[k].start <= chunk.duration

\* C14 (amended): over a plan made by create_chunks, every two adjacent
\* segments a, b of the list _collect_segments produces satisfy
\* a.start <= b.start, provided the segments stored with each chunk are in
\* non-decreasing order of start and each starts within its chunk's duration.
C14_SegmentsMonotonicWhenOrdered ==
    (ops.op # "none" /\ \A k \in 1..Len(mgr.chunks) :
                            RawWithinChunk(mgr.chunks[k]))
        => Monotonic(ops.segments)

C14_Witness ==
    /\ ops.op = "_collect_segments"
    /\ Len(mgr.chunks) = 2
    /\ \A k \in 1..2 : /\ mgr.chunks[k].metadata # <<>>
                       /\ "segments" \in DOMAIN mgr.chunks[k].metadata[1]
                       /\ RawWithinChunk(mgr.chunks[k])
    /\ Len(mgr.chunks[1].metadata[1].segments.list) = 1
    /\ mgr.chunks[1].metadata[1].segments.list[1].start = 1
    /\ Len(mgr.chunks[2].metadata[1].segments.list) = 1
    /\ mgr.chunks[2].metadata[1].segments.list[1].start = 0
    /\ Len(ops.segments) = 2
    /\ ops.segments[1].start = 1 /\ ops.segments[2].start = 1

\* stored segments of None replaced by [], and [] by None.
SwapNoneEmpty(chunks) ==
    [k \in 1..Len(chunks) |->
        IF chunks[k].metadata # <<>>
           /\ "segments" \in DOMAIN chunks[k].metadata[1]
           /\ chunks[k].metadata[1].segments.list = <<>>
        THEN [chunks[k] EXCEPT !.metadata[1].segments.some = ~@]
        ELSE chunks[k]]

\* C19: write_srt and write_vtt raise and write no output file when the
\* result's segments is None or an empty list; and stitching yields the same
\* segment list for a chunk whose stored segments is None as for one whose
\* stored segments is [].
C19_NoSegmentsRejected ==
    /\ (ops.op \in {"write_srt", "write_vtt"}
        /\ "segments" \in DOMAIN ops.result
        /\ (~ops.result.segments.some \/ ops.result.segments.list = <<>>))
          => (ops.raised /\ ops.out = <<>>)
    /\ ops.op # "none" =>
          ops.segments = _collect_segments(SwapNoneEmpty(mgr.chunks))

C19_Witness ==
    /\ ops.op = "write_srt"
    /\ ops.result = [text |-> <<"s">>, segments |-> NoneSegments]
    /\ ops.raised /\ ops.out = <<>>
    /\ Len(mgr.chunks) = 2
    /\ mgr.chunks[1].metadata = <<[text |-> <<"s">>, segments |-> NoneSegments]>>
    /\ mgr.chunks[2].metadata =
           <<[text |-> <<"s">>, segments |-> SegmentsOf(<<[start |-> 0, end |-> 1, text |-> <<" ", "s">>]>>)]>>
    /\ ops.segments = <<[start |-> 1, end |-> 2, text |-> <<"s">>]>>


\* C18: checkpoint round trip: after save_checkpoint, a new ChunkingManager
\* for the same input path and work directory that calls load_checkpoint
\* gets True and a chunk list equal to the saved one, in the same order,
\* field for field.
C18_CheckpointRoundTrip ==
    ops.op \in {"save_checkpoint", "mark_chunk_completed"} =>
        LET new == [input_path |-> mgr.input_path, work_dir |-> mgr.work_dir,
                    chunks |-> <<>>]
            ld == load_checkpoint(dirs, files, new.work_dir, new.input_path,
                                  new.chunks)
        IN /\ ld.loaded
           /\ Len(ld.chunks) = Len(mgr.chunks)
           /\ \A k \in 1..Len(mgr.chunks) :
                 /\ ld.chunks[k].index = mgr.chunks[k].index
                 /\ ld.chunks[k].start_time = mgr.chunks[k].start_time
                 /\ ld.chunks[k].duration = mgr.chunks[k].duration
                 /\ ld.chunks[k].file_path = mgr.chunks[k].file_path
                 /\ ld.chunks[k].transcribed = mgr.chunks[k].transcribed
                 /\ ld.chunks[k].transcript = mgr.chunks[k].transcript
                 /\ ld.chunks[k].metadata = mgr.chunks[k].metadata

C18_Witness ==
    /\ ops.op = "save_checkpoint"
    /\ Len(mgr.chunks) = 2
    /\ mgr.chunks[1].transcribed
    /\ mgr.chunks[1].transcript \in Texts
    /\ mgr.chunks[1].metadata # <<>>
    /\ ~mgr.chunks[2].transcribed
    /\ mgr.chunks[2].transcript = NoneStr
    /\ mgr.chunks[2].metadata = <<>>
    /\ files[mgr.work_dir][get_file_hash(mgr.input_path)] # <<>>


\* The first attempt failed with a 4xx response whose error text matches one
\* of "400", "not supported", "diarize", "speaker".
Unsupported4xx(f) ==
    /\ f.kind = "status"
    /\ f.code >= 400 /\ f.code < 500
    /\ IsUnsupportedSignal(f.message)

\* C15: transcribe_with_diarization issues exactly one fallback call to
\* transcribe_audio when, and only when, its first attempt failed with a 4xx
\* response matching one of "400", "not supported", "diarize", "speaker";
\* every other failure of the first attempt propagates with no fallback
\* call, and a failure of the fallback propagates without a further one.
C15_FallbackOnlyOnUnsupported4xx ==
    ops.op = "transcribe_with_diarization" =>
        /\ ops.calls <= 2
        /\ (ops.calls = 2) <=> Unsupported4xx(ops.first)
        /\ (ops.first # NoFailure /\ ~Unsupported4xx(ops.first)) =>
              (ops.phase = "raised" /\ ops.calls = 1)

\* C16: when the diarized attempt failed with a recognized-unsupported
\* signal and the fallback succeeded, the value returned is the one a plain
\* transcribe_audio call with the same audio, language, model and
\* timestamp_granularities returns for the same reply of the service.
C16_FallbackTransparent ==
    (ops.op = "transcribe_with_diarization" /\ ops.calls = 2
     /\ ops.phase = "returned") =>
        LET plain == TranscribeRequest(ops.args.audio_path, ops.args.language,
                                       ops.args.model, DefaultResponseFormat,
                                       ops.args.timestamp_granularities)
        IN /\ ops.request = plain
           /\ ops.result = ParseReply(plain, ops.reply)

C16_Witness ==
    /\ ops.op = "transcribe_with_diarization"
    /\ ops.calls = 2
    /\ ops.phase = "returned"
    /\ ops.first.kind = "status" /\ ops.first.code = 400
    /\ ops.args.timestamp_granularities = <<"segment">>
    /\ ops.reply.content_type = "text/plain"
    /\ ops.reply.body.json
    /\ ops.result.segments.some
    /\ ops.result.text = <<"t", "1">>


\* C20: download_captions_text first runs the downloader for manual
\* subtitles; it runs the auto-generated download only if no caption file is
\* found after the manual attempt; it fails if no caption file is found after
\* both attempts; and used_auto is true exactly when the manual attempt
\* found no file.
C20_ManualThenAuto ==
    ops.op = "download_captions_text" =>
        /\ ops.at # "start" =>
              (ops.log # <<>> /\ ops.log[1].flag = "--write-subs")
        /\ Len(ops.log) <= 2
        /\ Len(ops.log) = 2 =>
              (ops.log[2].flag = "--write-auto-subs"
               /\ ops.manual_file = NoVtt)
        /\ ops.at \in {"returned", "raised"} =>
              /\ (Len(ops.log) = 2) <=> (ops.manual_file = NoVtt)
              /\ (ops.at = "raised") <=> (ops.caption_file = NoVtt)
              /\ ops.used_auto <=> (ops.manual_file = NoVtt)
        /\ ops.at = "returned" => ops.caption_file \in ops.vtts

C20_Witness ==
    /\ ops.op = "download_captions_text"
    /\ ops.at = "returned"
    /\ ops.used_auto
    /\ Len(ops.log) = 2
    /\ ops.manual_file = NoVtt
    /\ ops.caption_file = VttFile(ops.url, ops.lang, "auto")


\* C21: for a chunk processed through transcribe_with_diarization, its
\* fallback call included, the number of HTTP POST attempts issued is at
\* most max_retries.
C21_DiarPostsBounded ==
    ops.op = "transcribe_with_diarization" => ops.posts <= max_retries


\* The cuts create_chunks attempts (T > 0, effective duration eff > 0) that
\* raise: the planned indices i with i * eff < T, up to the first failure
\* at index 0.
FailedCuts(o) ==
    LET eff == EffectiveChunkDuration(o.T, o.size, o.chunk_duration,
                                      Min(o.max_chunk_size,
                                          OPENAI_MAX_CHUNK_SIZE)) IN
    IF o.T <= 0 \/ eff = 0 THEN {}
    ELSE IF 0 \in o.cutFail THEN {0}
    ELSE {i \in o.cutFail : i * eff < o.T}

\* C22: if cutting chunk 0 fails, create_chunks returns the plan of exactly
\* one chunk (index 0, start 0, duration T) over the original asset; if
\* cutting a chunk of index >= 1 fails, create_chunks returns no plan.
C22_CutFailureRule ==
    ops.op = "create_chunks" =>
        /\ 0 \in FailedCuts(ops) =>
              (ops.result
               /\ mgr.chunks = << AudioChunk(0, 0, ops.T, mgr.input_path) >>)
        /\ (\E i \in FailedCuts(ops) : i >= 1) => ~ops.result


\* C23: for every pending chunk, in diarize and non-diarize mode, the
\* response format requested is determined by the job's output format alone
\* (text -> text, json/srt/vtt -> verbose_json), and the segment timestamp
\* hint is sent exactly when the request is verbose_json and the model is
\* whisper-1.
C23_FormatFromOutputAlone ==
    ops.op \in {"_transcribe_chunks", "fallback"} =>
        /\ ops.request.response_format =
              (IF ops.output_format = "text" THEN "text" ELSE "verbose_json")
        /\ (ops.request.timestamp_granularities = <<"segment">>)
              <=> (ops.request.response_format = "verbose_json"
                   /\ ops.request.model = "whisper-1")


\* The raw segments stored with a chunk.
StoredSegments(chunk) ==
    IF chunk.metadata # <<>> /\ "segments" \in DOMAIN chunk.metadata[1]
       /\ chunk.metadata[1].segments.some
    THEN chunk.metadata[1].segments.list ELSE <<>>

\* The number of raw segments stored with the chunks of index below i.
RECURSIVE StoredBefore(_, _)
StoredBefore(chunks, i) ==
    IF i = 0 THEN 0
    ELSE LET c == CHOOSE c \in {chunks[k] : k \in 1..Len(chunks)} :
                      c.index = i - 1
         IN StoredBefore(chunks, i - 1) + Len(StoredSegments(c))

\* C24: _collect_segments emits exactly one segment per stored raw segment,
\* with start = chunk.start_time + seg.start and end = chunk.start_time +
\* seg.end, in the within-chunk order, the segments of chunk i before those
\* of chunk i+1 whatever their timestamps.
C24_CollectExact ==
    ops.op # "none" =>
        /\ Len(ops.segments) = StoredBefore(mgr.chunks, Len(mgr.chunks))
        /\ \A k \in 1..Len(mgr.chunks) :
              LET c == mgr.chunks[k]
                  raw == StoredSegments(c)
                  off == StoredBefore(mgr.chunks, c.index)
              IN \A j \in 1..Len(raw) :
                    /\ ops.segments[off + j].start = c.start_time + raw[j].start
                    /\ ops.segments[off + j].end = c.start_time + raw[j].end

C24_Witness ==
    /\ ops.op = "_collect_segments"
    /\ Len(mgr.chunks) = 2
    /\ mgr.chunks[1].index = 1 /\ mgr.chunks[2].index = 0
    /\ Len(StoredSegments(mgr.chunks[1])) = 1
    /\ Len(StoredSegments(mgr.chunks[2])) = 1
    /\ Len(ops.segments) = 2
    /\ ops.segments[1].start = 2 /\ ops.segments[2].start = 1


\* C25: when run() returns successfully, the job's working directory has
\* been deleted if verbose is off and is still present if verbose is on.
C25_VerboseRetention ==
    [][(pc # "idle" /\ pc' = "idle" /\ last'.outcome = "ok") =>
          (ops.verbose <=> temp_dir \in dirs')]_vars


\* The byte ceiling of a chunk for the job.
ChunkCeiling == Min(MaxBytesPerChunk, OPENAI_MAX_CHUNK_SIZE)

\* C26: when transcoding an audio input fails, _prepare_audio falls back to
\* the original file only if its size is within the chunk size ceiling; if
\* the original exceeds the ceiling the failure is fatal and no chunk is
\* uploaded.
C26_FallbackWithinCeiling ==
    (pc # "idle" /\ is_audio_file(config.input_path)
     /\ audio_path = config.input_path) =>
        /\ ops.size <= ChunkCeiling
        /\ ops.size > ChunkCeiling => (run.calls = <<>> /\ call.log = <<>>)


\* C27: a checkpoint update is atomic: the checkpoint file holds, and a
\* reader of it (a concurrent reader, or the next run after a crash inside
\* save_checkpoint) observes, either the complete previous record or the
\* complete new record, never an empty or partially written file.
C27_CheckpointAtomic ==
    ops.op \in {"open", "saved", "crashed"} =>
        /\ files[MgrDir][get_file_hash(InputPath("a.wav"))]
              \in {<<ops.prev>>, <<ops.next>>}
        /\ ops.seen # <<>> =>
              /\ ops.seen[1].loaded
              /\ ops.seen[1].chunks
                    \in {RestoreChunks(ops.prev), RestoreChunks(ops.next)}


\* C28: across youtube jobs that share an output directory, each job works
\* in a temporary directory of its own that is removed when the job exits:
\* the directory holds nothing of an earlier job when a job begins, it is
\* gone once the job has exited, and the caption or audio file the job
\* consumes is a file of the job's own URL that no earlier job left there.
C28_OwnTempDir ==
    (ops.op = "youtube" /\ ops.job > 0) =>
        /\ ops.left = {}
        /\ ops.at = "exited" => ops.output_dir \notin dirs
        /\ \A f \in ops.consumed : f.id = ops.url /\ f \notin ops.left

\* C29: a youtube command in captions mode whose URL has a subtitle file
\* writes the transcript and exits with code 0, and it invokes neither the
\* audio download nor the transcoder nor the transcription client.
C29_CaptionsModeSucceeds ==
    (/\ ops.op = "youtube"
     /\ ops.source = "captions"
     /\ ops.at = "exited"
     /\ ops.caption_file # NoVtt) =>
        /\ ops.exit = 0
        /\ ops.written
        /\ ops.invoked = {}


\* C30: transcribe_audio waits only between attempts: every backoff wait
\* follows an attempt with an index below max_retries - 1, whatever that
\* attempt's failing outcome, and a call that has reported failure ends
\* its history with an HTTP attempt, never with a wait.
C30_NoWaitAfterFinalAttempt ==
    /\ \A j \in 1..Len(call.log) :
          call.log[j].t = "wait" =>
             /\ j > 1
             /\ call.log[j - 1].t = "post"
             /\ call.log[j - 1].v < max_retries - 1
    /\ (call.cpc = "raised" /\ call.log # <<>>) =>
          call.log[Len(call.log)].t = "post"

====
